---------------------------- MODULE Spec2Model ----------------------------
(***************************************************************************)
(* A model of the AniMatch core: the multi-source DataAggregator           *)
(* (src/src/lib/data-sources/aggregator.ts), the AnimeCache                *)
(* (src/unnamed/part_005, imported as ./cache.js) and the sliding-window   *)
(* JikanRateLimiter (src/src/lib/data-sources/jikan.ts).                   *)
(*                                                                         *)
(* Numbers.  confidence and the source weights are held in twentieths      *)
(* (0.05 is 1, 0.9 is 18, 1 is 20).  averageScore is an exact fraction     *)
(* [n, d]; d = 0 is JavaScript's undefined.  Time is in milliseconds.      *)
(***************************************************************************)
EXTENDS Integers, Sequences, FiniteSets, TLC

(***************************************************************************)
(* Bounds of the model.                                                    *)
(***************************************************************************)
\* longest list one adapter call returns
MaxResults == 2
\* the step, in milliseconds, by which the time of a pending call advances
TickMs == 5000
\* cache sets in one behaviour
MaxSets == 3
\* timestamps the rate limiter holds at most
MaxHeld == 4
\* clock advances in one behaviour of the cache or of the rate limiter
MaxTicks == 2
\* AnimeCache.maxCacheSize, which the source sets to 1000 (part_005:17),
\* scaled down so that the model fills a store
maxCacheSize == 2

(***************************************************************************)
(* Program constants.                                                      *)
(***************************************************************************)
\* aggregator.ts:69   timeout: config.timeout || 10000
DefaultTimeout == 10000
\* aggregator.ts:231  slice(0, 20)
RecLimit == 20
\* aggregator.ts:303  || 0.1
FallbackWeight == 2
\* aggregator.ts:330  Math.min(0.2, (n - 1) * 0.1)
BonusCap == 4
BonusPerSource == 2
\* aggregator.ts:331  Math.min(1, ...)
ConfidenceOne == 20
\* jikan.ts:12-13  JikanRateLimiter
maxRequests == 3
windowMs == 1000
\* part_005:14-16  the time to live of each store, in milliseconds
defaultTTL == 1800000
searchTTL == 900000
detailsTTL == 3600000

(***************************************************************************)
(* Generic helpers.                                                        *)
(***************************************************************************)
Min(a, b) == IF a <= b THEN a ELSE b

Max(a, b) == IF a >= b THEN a ELSE b

Range(s) == {s[i] : i \in 1..Len(s)}

RECURSIVE Concat(_)
Concat(ss) == IF ss = <<>> THEN <<>> ELSE Head(ss) \o Concat(Tail(ss))

\* every sequence of pairwise distinct elements of S, no longer than n
RECURSIVE DistinctSeqs(_, _)
DistinctSeqs(S, n) ==
  IF n = 0 \/ S = {} THEN {<<>>}
  ELSE {<<>>} \cup UNION {{<<x>> \o t : t \in DistinctSeqs(S \ {x}, n - 1)} : x \in S}

(***************************************************************************)
(* AnimeData (base.ts, carried in src/src/lib/data-sources/anilist.ts).    *)
(* A title is a sequence of tokens; <<>> is a missing (falsy) title.       *)
(* year = 0 and episodes = 0 are the falsy values of those fields.         *)
(***************************************************************************)
Undefined == [n |-> 0, d |-> 0]

Score(x) == [n |-> x, d |-> 1]

AnimeData(id, source, en, ro, na, co, year, eps, conf, score) ==
  [id |-> id, source |-> source,
   title |-> [english |-> en, romaji |-> ro, native |-> na, common |-> co],
   year |-> year, episodes |-> eps, confidence |-> conf, averageScore |-> score]

\* the array fields of a record: genres and tags always, studios and
\* demographics when the source has them (<<>> is a missing or empty array)
Arrays(a, genres, tags, studios, demographics) ==
  [id |-> a.id, source |-> a.source, title |-> a.title, year |-> a.year,
   episodes |-> a.episodes, confidence |-> a.confidence,
   averageScore |-> a.averageScore,
   genres |-> genres, tags |-> tags, studios |-> studios,
   demographics |-> demographics,
   description |-> <<>>, status |-> <<>>, coverImage |-> <<>>, startDate |-> <<>>]

\* the optional scalar fields of a record: <<>> is undefined or the empty string
Scalars(a, description, status, coverImage, startDate) ==
  [a EXCEPT !.description = description, !.status = status,
            !.coverImage = coverImage, !.startDate = startDate]

\* What each adapter can hand back: ids are "<prefix>-<local id>" as the
\* adapters' transformToAnimeData build them, source is the adapter's name.
Catalogue ==
  [anilist |->
     {Arrays(AnimeData(<<"anilist", "1">>, "AniList", <<"The", "Naruto">>, <<>>, <<>>, <<>>,
                       2002, 220, 16, Score(85)),
             <<"Action", "Adventure">>, <<"Ninja">>, <<"Pierrot">>, <<>>),
      Arrays(AnimeData(<<"anilist", "2">>, "AniList", <<"Bleach">>, <<"BLEACH">>, <<>>, <<>>,
                       2004, 366, 16, Score(150)),
             <<"Action">>, <<>>, <<"Pierrot">>, <<>>)},
   myanimelist |->
     {Arrays(AnimeData(<<"mal", "1">>, "MyAnimeList", <<>>, <<"naruto", "!">>, <<"NARUTO">>,
                       <<>>, 2002, 220, 15, Score(78)),
             <<"action", "Comedy">>, <<>>, <<"PIERROT">>, <<"Shounen">>),
      Arrays(AnimeData(<<"mal", "3">>, "MyAnimeList", <<"One", "Piece">>, <<>>, <<>>, <<>>,
                       0, 0, 17, Undefined),
             <<"Adventure">>, <<>>, <<>>, <<"Shounen">>)},
   jikan |->
     {Arrays(AnimeData(<<"jikan", "1">>, "Jikan", <<"Naruto">>, <<>>, <<>>, <<"naruto">>,
                       2002, 220, 17, Score(79)),
             <<"Action", "Adventure">>, <<"Ninja">>, <<>>, <<"Shounen">>),
      Arrays(AnimeData(<<"jikan", "2">>, "Jikan", <<"Bleach">>, <<>>, <<>>, <<>>,
                       2004, 366, 17, Undefined),
             <<"Action">>, <<"Ninja">>, <<"Pierrot">>, <<>>)}]

(***************************************************************************)
(* DataAggregator: the pure part.                                          *)
(***************************************************************************)
\* String.prototype.toLowerCase on the tokens and names the model uses
toLowerCase(t) ==
  CASE t = "The" -> "the"
    [] t = "Naruto" -> "naruto"
    [] t = "NARUTO" -> "naruto"
    [] t = "Bleach" -> "bleach"
    [] t = "BLEACH" -> "bleach"
    [] t = "One" -> "one"
    [] t = "Piece" -> "piece"
    [] t = "AniList" -> "anilist"
    [] t = "MyAnimeList" -> "myanimelist"
    [] t = "Jikan" -> "jikan"
    [] t = "Kitsu" -> "kitsu"
    [] t = "TMDB" -> "tmdb"
    [] t = "Action" -> "action"
    [] t = "ACTION" -> "action"
    [] t = "Adventure" -> "adventure"
    [] t = "Comedy" -> "comedy"
    [] t = "COMEDY" -> "comedy"
    [] t = "Pierrot" -> "pierrot"
    [] t = "PIERROT" -> "pierrot"
    [] t = "Shounen" -> "shounen"
    [] t = "Ninja" -> "ninja"
    [] OTHER -> t

\* tokens removed by .replace(/[^\w\s]/g, "")
Punctuation == {"!", ":", "."}

\* tokens removed by .replace(/\b(the|a|an|wo|ga|no|ni|de|to)\b/g, "")
StopWords == {"the", "a", "an", "wo", "ga", "no", "ni", "de", "to"}

\* lower-case, strip punctuation, strip stop words, collapse blanks, trim
normalizedTitle(title) ==
  LET lower == [i \in 1..Len(title) |-> toLowerCase(title[i])]
      noPunct == SelectSeq(lower, LAMBDA t : t \notin Punctuation)
  IN  SelectSeq(noPunct, LAMBDA t : t \notin StopWords)

\* anime.title.english || anime.title.romaji || anime.title.common || ""
keyTitle(anime) ==
  IF anime.title.english # <<>> THEN anime.title.english
  ELSE IF anime.title.romaji # <<>> THEN anime.title.romaji
  ELSE anime.title.common

\* `${normalizedTitle}-${year}-${episodes}`, "unknown" for a falsy year or count
generateAnimeKey(anime) ==
  <<normalizedTitle(keyTitle(anime)),
    IF anime.year # 0 THEN ToString(anime.year) ELSE "unknown",
    IF anime.episodes # 0 THEN ToString(anime.episodes) ELSE "unknown">>

\* this.config.weights as the facade configures it
weights ==
  [anilist |-> 7, myanimelist |-> 5, kitsu |-> 4, animethemes |-> 2,
   consumet |-> 2, jikan |-> 1, tmdb |-> 1, trackt |-> 1]

\* this.config.weights[anime.source.toLowerCase()] || 0.1
sourceWeight(source) ==
  LET k == toLowerCase(source)
  IN  IF k \in DOMAIN weights /\ weights[k] # 0 THEN weights[k] ELSE FallbackWeight

\* Array.prototype.sort with (a, b) => (b.confidence || 0) - (a.confidence || 0):
\* stable, descending confidence
RECURSIVE insertByConfidence(_, _)
insertByConfidence(x, sorted) ==
  IF sorted = <<>> THEN <<x>>
  ELSE IF Head(sorted).confidence >= x.confidence
       THEN <<Head(sorted)>> \o insertByConfidence(x, Tail(sorted))
       ELSE <<x>> \o sorted

RECURSIVE sortByConfidence(_)
sortByConfidence(list) ==
  IF list = <<>> THEN <<>>
  ELSE insertByConfidence(list[Len(list)], sortByConfidence(SubSeq(list, 1, Len(list) - 1)))

\* first truthy value of a title variant, scanning in the given order
RECURSIVE selectBestValue(_, _)
selectBestValue(animeList, field) ==
  IF animeList = <<>> THEN <<>>
  ELSE IF Head(animeList).title[field] # <<>> THEN Head(animeList).title[field]
  ELSE selectBestValue(Tail(animeList), field)

\* selectBestValue(sorted, (anime) => anime.description)
RECURSIVE bestDescription(_)
bestDescription(animeList) ==
  IF animeList = <<>> THEN <<>>
  ELSE IF Head(animeList).description # <<>> THEN Head(animeList).description
  ELSE bestDescription(Tail(animeList))

\* the contributors calculateWeightedAverage counts:
\* anime.averageScore && anime.confidence
hasWeightedScore(anime) ==
  /\ anime.averageScore.d # 0
  /\ anime.averageScore.n # 0
  /\ anime.confidence # 0

RECURSIVE totalScore(_)
totalScore(animeList) ==
  IF animeList = <<>> THEN 0
  ELSE (IF hasWeightedScore(Head(animeList))
        THEN Head(animeList).averageScore.n
               * (Head(animeList).confidence * sourceWeight(Head(animeList).source))
        ELSE 0) + totalScore(Tail(animeList))

RECURSIVE totalWeight(_)
totalWeight(animeList) ==
  IF animeList = <<>> THEN 0
  ELSE (IF hasWeightedScore(Head(animeList))
        THEN Head(animeList).confidence * sourceWeight(Head(animeList).source)
        ELSE 0) + totalWeight(Tail(animeList))

\* totalWeight > 0 ? totalScore / totalWeight : undefined
calculateWeightedAverage(animeList) ==
  IF totalWeight(animeList) > 0
  THEN [n |-> totalScore(animeList), d |-> totalWeight(animeList)]
  ELSE Undefined

RECURSIVE maxConfidence(_)
maxConfidence(animeList) ==
  IF Len(animeList) = 1 THEN Head(animeList).confidence
  ELSE Max(Head(animeList).confidence, maxConfidence(Tail(animeList)))

\* a plausible slip: the mean of the contributors instead of max plus bonus
averagedConfidence(animeList) ==
  LET RECURSIVE sum(_)
      sum(l) == IF l = <<>> THEN 0 ELSE Head(l).confidence + sum(Tail(l))
  IN  sum(animeList) \div Len(animeList)

\* a bonus of 0.1 per further source with no cap of its own
uncappedConfidence(animeList) ==
  Min(ConfidenceOne, maxConfidence(animeList) + (Len(animeList) - 1) * BonusPerSource)

\* Math.min(1, Math.max(...confidences) + Math.min(0.2, (n - 1) * 0.1))
calculateCombinedConfidence(animeList) ==
  LET baseConfidence == maxConfidence(animeList)
      sourceBonus == Min(BonusCap, (Len(animeList) - 1) * BonusPerSource)
  IN  Min(ConfidenceOne, baseConfidence + sourceBonus)

\* the strings of a list, each once, in order of first occurrence, as a Set
\* of strings iterates: "Action" and "action" are two members
RECURSIVE setOfStrings(_)
setOfStrings(list) ==
  IF list = <<>> THEN <<>>
  ELSE LET init == setOfStrings(SubSeq(list, 1, Len(list) - 1))
           item == list[Len(list)]
       IN  IF item \in Range(init) THEN init ELSE Append(init, item)

\* Array.from(merged), merged the Set every item of every array was added to
mergeArrays(arrays) == setOfStrings(Concat(arrays))

\* ...primary, then the title variants, averageScore, genres, tags, studios
\* and confidence computed over the group; every other field is primary's
mergeAnimeData(animeList) ==
  LET sorted == sortByConfidence(animeList)
      primary == sorted[1]
  IN  [primary EXCEPT
         !.title = [english |-> selectBestValue(sorted, "english"),
                    romaji |-> selectBestValue(sorted, "romaji"),
                    native |-> selectBestValue(sorted, "native"),
                    common |-> selectBestValue(sorted, "common")],
         !.description = bestDescription(sorted),
         !.averageScore = calculateWeightedAverage(sorted),
         !.genres = mergeArrays([i \in 1..Len(sorted) |-> sorted[i].genres]),
         !.tags = mergeArrays([i \in 1..Len(sorted) |-> sorted[i].tags]),
         !.studios = mergeArrays([i \in 1..Len(sorted) |-> sorted[i].studios]),
         !.confidence = calculateCombinedConfidence(sorted)]

\* the records of all responses, in response order
allResults(responses) ==
  Concat([i \in 1..Len(responses) |-> responses[i].results])

\* the keys of a Map filled in this order: first occurrences, in order
RECURSIVE keysInOrder(_)
keysInOrder(list) ==
  IF list = <<>> THEN <<>>
  ELSE LET init == keysInOrder(SubSeq(list, 1, Len(list) - 1))
           k == generateAnimeKey(list[Len(list)])
       IN  IF k \in Range(init) THEN init ELSE Append(init, k)

\* a grouping that puts every record in every group
everyRecord(list, k) == list

\* animeMap.get(key): the records of one key, in arrival order
groupOf(list, k) == SelectSeq(list, LAMBDA a : generateAnimeKey(a) = k)

\* (a.averageScore || 0) * (a.confidence || 0), as the fraction num/den
relevanceNum(a) == IF a.averageScore.d = 0 THEN 0 ELSE a.averageScore.n * a.confidence

relevanceDen(a) == IF a.averageScore.d = 0 THEN 1 ELSE a.averageScore.d

\* a comparator that returns 0 for every pair: the sort moves nothing
neverBelow(a, b) == TRUE

\* the comparator scoreB - scoreA is <= 0: a may stay before b
notBelow(a, b) == relevanceNum(a) * relevanceDen(b) >= relevanceNum(b) * relevanceDen(a)

RECURSIVE insertByRelevance(_, _)
insertByRelevance(x, sorted) ==
  IF sorted = <<>> THEN <<x>>
  ELSE IF notBelow(Head(sorted), x)
       THEN <<Head(sorted)>> \o insertByRelevance(x, Tail(sorted))
       ELSE <<x>> \o sorted

\* mergedResults.sort((a, b) => scoreB - scoreA)
RECURSIVE sortByRelevance(_)
sortByRelevance(list) ==
  IF list = <<>> THEN <<>>
  ELSE insertByRelevance(list[Len(list)], sortByRelevance(SubSeq(list, 1, Len(list) - 1)))

mergeSearchResults(responses) ==
  LET all == allResults(responses)
      keys == keysInOrder(all)
      mergedResults ==
        [i \in 1..Len(keys) |->
           LET animeList == groupOf(all, keys[i])
           IN  IF Len(animeList) = 1 THEN animeList[1] ELSE mergeAnimeData(animeList)]
  IN  sortByRelevance(mergedResults)

\* a merge that keeps the first record of a key whatever comes later
firstOf(animeList) == animeList[1]

\* uniqueMap after the records of list were offered in order: per key the first
\* record no later one of strictly higher confidence replaced
RECURSIVE bestOf(_)
bestOf(animeList) ==
  IF Len(animeList) = 1 THEN animeList[1]
  ELSE LET existing == bestOf(SubSeq(animeList, 1, Len(animeList) - 1))
           anime == animeList[Len(animeList)]
       IN  IF anime.confidence > existing.confidence THEN anime ELSE existing

mergeRecommendationResults(responses) ==
  LET all == allResults(responses)
      keys == keysInOrder(all)
      unique == [i \in 1..Len(keys) |-> bestOf(groupOf(all, keys[i]))]
  IN  SubSeq(unique, 1, Min(RecLimit, Len(unique)))

(***************************************************************************)
(* State.                                                                  *)
(***************************************************************************)
VARIABLES
  \* DataAggregator
  enabled,     \* the keys of this.sources
  timeoutMs,   \* this.config.timeout
  aggOp,       \* the method in progress: "none", "search", "recs", "details"
  aggPc,       \* "idle", "pending", "done" (returned), "threw" (rejected)
  aggArg,      \* the id argument of getAnimeDetails / getRecommendations
  branch,      \* per source: the promise of the mapped async function
  adapter,     \* per source: the adapter's own promise and what it settled with
  elapsed,     \* milliseconds since the fan-out started
  joined,      \* the responses Promise.all handed to the merge
  details,     \* what getAnimeDetails resolved with: <<>> is null
  aggError,    \* the error the call rejected with
  calls,       \* the adapter methods invoked by the call in progress
  timedOut,    \* sources whose timer won the race of the call in progress
  settled,     \* the sources of the call in progress, in the order their
               \* branches settled
  \* AnimeCache
  now,         \* Date.now()
  cache,       \* per store: the Map's entries, in Map order
  lastGet,     \* the cache get just made: store, key, what it found and returned;
               \* after a set, found is what its cleanup deleted as expired
  sets,        \* cache sets made so far
  ticks,       \* clock advances made so far
  \* JikanRateLimiter
  requests,    \* this.requests
  lastCan,     \* the canMakeRequest() just made: what it returned, and when
  lastWait,    \* the getWaitTime() made since the last record: the same
  \* callers of the pure functions, and AniMatchService
  mergeCall,   \* the merge just applied: its input and what it returned
  engineCall,  \* the RecommendationEngine call just made: arguments and result
  facade,      \* AniMatchService: the method in progress and where it stands
  begun,       \* an adapter's makeRequest: the calls begun so far
  sleeping     \* and the times the timers of the calls that wait are set for

aggVars == <<enabled, timeoutMs, aggOp, aggPc, aggArg, branch, adapter, elapsed,
             joined, details, aggError, calls, timedOut, settled>>

cacheVars == <<cache, lastGet, sets, ticks>>

limiterVars == <<requests, lastCan, lastWait>>

callerVars == <<mergeCall, engineCall, facade, begun, sleeping>>

vars == <<aggVars, now, cacheVars, limiterVars, callerVars>>

(***************************************************************************)
(* DataAggregator: construction.                                           *)
(***************************************************************************)
\* the registry keys initializeSources can set, in the order it sets them
\* (the model carries three of the eight adapters)
SourceOrder == <<"anilist", "myanimelist", "jikan">>

AllSources == Range(SourceOrder)

\* config.sources as passed to the constructor: who is enabled
EnabledConfigs == {AllSources, {"anilist", "myanimelist"}}

\* config.timeout as passed to the constructor; 0 is also "not given"
TimeoutArgs == {0, TickMs}

\* timeout: config.timeout || 10000
configTimeout(arg) == IF arg # 0 THEN arg ELSE DefaultTimeout

\* Array.from(this.sources.entries())
sourceEntries == SelectSeq(SourceOrder, LAMBDA s : s \in enabled)

\* composite ids given to getAnimeDetails / getRecommendations, as the
\* sequence of their "-"-separated pieces
Ids ==
  {<<"anilist", "1">>, <<"mal", "1">>, <<"jikan", "1">>, <<"kitsu", "7">>,
   <<"anilist", "2", "x">>, <<"jikan">>, <<"">>}

RecIds == {<<"anilist", "1">>, <<"mal", "1">>}

\* const [sourceName, sourceId] = id.split("-", 2)
split2(id) ==
  [sourceName |-> id[1],
   sourceId |-> IF Len(id) >= 2 THEN id[2] ELSE "undefined"]

\* a lookup with a fallback to the first registered source: no check at all
sourcesGetOrFirst(sourceName) ==
  IF sourceName \in enabled THEN <<sourceName>> ELSE <<sourceEntries[1]>>

\* this.sources.get(sourceName): <<>> when the Map has no such key
sourcesGet(sourceName) == IF sourceName \in enabled THEN <<sourceName>> ELSE <<>>

NoBranch == [state |-> "none", results |-> <<>>, error |-> FALSE]

PendingBranch == [state |-> "pending", results |-> <<>>, error |-> FALSE]

IdleAdapter == [state |-> "idle", ok |-> FALSE, results |-> <<>>]

RunningAdapter == [state |-> "running", ok |-> FALSE, results |-> <<>>]

AggIdle ==
  /\ aggOp = "none" /\ aggPc = "idle" /\ aggArg = <<>>
  /\ branch = [s \in AllSources |-> NoBranch]
  /\ adapter = [s \in AllSources |-> IdleAdapter]
  /\ elapsed = 0 /\ joined = <<>> /\ details = <<>>
  /\ aggError = "" /\ calls = {} /\ timedOut = {} /\ settled = <<>>

AggInit ==
  /\ enabled \in EnabledConfigs
  /\ timeoutMs \in {configTimeout(a) : a \in TimeoutArgs}
  /\ AggIdle

(***************************************************************************)
(* DataAggregator: searchAnime and getRecommendations.                     *)
(***************************************************************************)
\* the mapped function without its catch: a lost race rejects the branch
rethrow(raced) ==
  IF raced.ok
  THEN [state |-> "fulfilled", results |-> raced.results, error |-> FALSE]
  ELSE [state |-> "rejected", results |-> <<>>, error |-> TRUE]

\* try { results = await Promise.race([...]); return {results, error: null} }
\* catch (error) { return {results: [], error} }
\* raced is what the race settled with: fulfilled (ok) with results, or rejected
tryCatch(raced) ==
  IF raced.ok
  THEN [state |-> "fulfilled", results |-> raced.results, error |-> FALSE]
  ELSE [state |-> "fulfilled", results |-> <<>>, error |-> TRUE]

\* the lists an adapter's searchAnime / getRecommendations can resolve with
AdapterLists(s) == DistinctSeqs(Catalogue[s], MaxResults)

\* sName === sourceName ? sourceId : animeId
idToUse(sName, animeId) ==
  IF sName = split2(animeId).sourceName THEN <<split2(animeId).sourceId>> ELSE animeId

\* the fan-out itself: one branch and one adapter call per registered source
FanOutStarts(op, arg, method) ==
  /\ aggPc = "idle"
  /\ aggOp' = op
  /\ aggArg' = arg
  /\ aggPc' = "pending"
  /\ branch' = [s \in AllSources |-> IF s \in enabled THEN PendingBranch ELSE NoBranch]
  /\ adapter' = [s \in AllSources |-> IF s \in enabled THEN RunningAdapter ELSE IdleAdapter]
  /\ calls' = {[source |-> s, method |-> method,
                arg |-> IF op = "recs" THEN idToUse(s, arg) ELSE arg] : s \in enabled}
  /\ elapsed' = 0
  /\ joined' = <<>>
  /\ details' = <<>>
  /\ aggError' = ""
  /\ timedOut' = {}
  /\ settled' = <<>>
  /\ UNCHANGED <<enabled, timeoutMs>>

FanOut(op, arg, method) ==
  /\ FanOutStarts(op, arg, method)
  /\ UNCHANGED <<now, cacheVars, limiterVars, callerVars>>

SearchAnime == FanOut("search", <<>>, "searchAnime")

GetRecommendations == \E id \in RecIds : FanOut("recs", id, "getRecommendations")

FanOutPending == aggPc = "pending" /\ aggOp \in {"search", "recs"}

\* a race that a later settlement could settle again
raceAlwaysOpen(s) == TRUE

\* Promise.race settles once: with the first of the adapter's promise and the timer
raceOpen(s) == branch[s].state = "pending"

\* the adapter's promise settles; the race takes it if the timer has not fired
AdapterSettles(s, raced) ==
  /\ aggOp \in {"search", "recs"}
  /\ adapter[s].state = "running"
  /\ adapter' = [adapter EXCEPT ![s] = [state |-> "settled", ok |-> raced.ok,
                                        results |-> raced.results]]
  /\ branch' = IF raceOpen(s)
               THEN [branch EXCEPT ![s] = tryCatch(raced)]
               ELSE branch
  /\ settled' = IF raceOpen(s) THEN Append(settled, s) ELSE settled
  /\ UNCHANGED <<enabled, timeoutMs, aggOp, aggPc, aggArg, elapsed, joined, details,
                 aggError, calls, timedOut, now, cacheVars, limiterVars, callerVars>>

AdapterReturns ==
  \E s \in enabled : \E list \in AdapterLists(s) :
    AdapterSettles(s, [ok |-> TRUE, results |-> list])

AdapterThrows ==
  \E s \in enabled : AdapterSettles(s, [ok |-> FALSE, results |-> <<>>])

\* time passes while the call is pending
Elapse ==
  /\ FanOutPending
  /\ elapsed < timeoutMs
  /\ elapsed' = elapsed + TickMs
  /\ UNCHANGED <<enabled, timeoutMs, aggOp, aggPc, aggArg, branch, adapter, joined,
                 details, aggError, calls, timedOut, settled, now,
                 cacheVars, limiterVars, callerVars>>

\* a timer that is never due: what a race without its setTimeout would be
timerNever(s) == FALSE

\* setTimeout(() => reject(new Error("Timeout")), this.config.timeout)
timerDue(s) == elapsed >= timeoutMs

\* the timer's reject wins the race
Timeout(s) ==
  /\ FanOutPending
  /\ branch[s].state = "pending"
  /\ timerDue(s)
  /\ branch' = [branch EXCEPT ![s] = tryCatch([ok |-> FALSE, results |-> <<>>])]
  /\ timedOut' = timedOut \cup {s}
  /\ settled' = Append(settled, s)
  /\ UNCHANGED <<enabled, timeoutMs, aggOp, aggPc, aggArg, adapter, elapsed, joined,
                 details, aggError, calls, now, cacheVars, limiterVars, callerVars>>

TimerFires == \E s \in enabled : Timeout(s)

\* a join that goes on at the first branch to finish: Promise.race for Promise.all
anyFulfilled == \E s \in enabled : branch[s].state = "fulfilled"

\* Promise.all(promises) fulfils: every branch has
allFulfilled == \A s \in enabled : branch[s].state = "fulfilled"

\* Promise.all(promises) rejects: some branch has
anyRejected == \E s \in enabled : branch[s].state = "rejected"

\* the branches' values in the order the branches settled
responsesAsSettled == [i \in 1..Len(settled) |-> branch[settled[i]]]

\* const responses = await Promise.all(promises)
responses == [i \in 1..Len(sourceEntries) |-> branch[sourceEntries[i]]]

\* await Promise.all(promises), then return this.merge...Results(responses):
\* the call settles; what it returns is output, below, of the responses joined
Join ==
  /\ FanOutPending
  /\ allFulfilled \/ anyRejected
  /\ IF anyRejected
     THEN /\ aggPc' = "threw"
          /\ aggError' = "adapter"
          /\ joined' = <<>>
     ELSE /\ aggPc' = "done"
          /\ aggError' = ""
          /\ joined' = responses
  /\ UNCHANGED <<enabled, timeoutMs, aggOp, aggArg, branch, adapter, elapsed, details,
                 calls, timedOut, settled, now,
                 cacheVars, limiterVars, callerVars>>

\* the value the call in progress returned
output ==
  IF aggPc # "done" THEN <<>>
  ELSE IF aggOp = "search" THEN mergeSearchResults(joined)
  ELSE IF aggOp = "recs" THEN mergeRecommendationResults(joined)
  ELSE details

\* the caller takes the result; the aggregator keeps nothing of the call
Returns ==
  /\ aggPc \in {"done", "threw"}
  /\ aggOp' = "none" /\ aggPc' = "idle" /\ aggArg' = <<>>
  /\ branch' = [s \in AllSources |-> NoBranch]
  /\ adapter' = [s \in AllSources |-> IdleAdapter]
  /\ elapsed' = 0 /\ joined' = <<>> /\ details' = <<>>
  /\ aggError' = "" /\ calls' = {} /\ timedOut' = {} /\ settled' = <<>>
  /\ UNCHANGED <<enabled, timeoutMs>>

Return == Returns /\ UNCHANGED <<now, cacheVars, limiterVars, callerVars>>

(***************************************************************************)
(* DataAggregator: getAnimeDetails.                                        *)
(***************************************************************************)
\* split the id, look the source up, throw on a miss, else call the adapter
DetailsStarts(id) ==
  LET sourceName == split2(id).sourceName
      sourceId == split2(id).sourceId
      source == sourcesGet(sourceName)
  IN  /\ aggPc = "idle"
      /\ aggOp' = "details"
      /\ aggArg' = id
      /\ IF source = <<>>
         THEN /\ aggPc' = "threw"
              /\ aggError' = "Unknown source"
              /\ calls' = {}
              /\ adapter' = adapter
         ELSE /\ aggPc' = "pending"
              /\ aggError' = ""
              /\ calls' = {[source |-> source[1], method |-> "getAnimeDetails",
                            arg |-> <<sourceId>>]}
              /\ adapter' = [adapter EXCEPT ![source[1]] = RunningAdapter]
      /\ UNCHANGED <<enabled, timeoutMs, branch, elapsed, joined, details, timedOut,
                     settled>>

GetAnimeDetails ==
  \E id \in Ids :
    DetailsStarts(id) /\ UNCHANGED <<now, cacheVars, limiterVars, callerVars>>

\* what the adapter's getAnimeDetails(sourceId) can resolve with: the record
\* of that local id, or null (<<>>)
DetailsAnswers(s, sourceId) ==
  {<<>>} \cup {<<a>> : a \in {c \in Catalogue[s] : Len(c.id) >= 2 /\ c.id[2] = sourceId}}

\* return await source.getAnimeDetails(sourceId): resolves
DetailsReturns ==
  \E s \in enabled :
    /\ aggOp = "details" /\ aggPc = "pending"
    /\ adapter[s].state = "running"
    /\ \E answer \in DetailsAnswers(s, split2(aggArg).sourceId) :
         /\ details' = answer
         /\ adapter' = [adapter EXCEPT ![s] = [state |-> "settled", ok |-> TRUE,
                                               results |-> answer]]
    /\ aggPc' = "done"
    /\ UNCHANGED <<enabled, timeoutMs, aggOp, aggArg, branch, elapsed, joined, aggError,
                   calls, timedOut, settled, now,
                 cacheVars, limiterVars, callerVars>>

\* return await source.getAnimeDetails(sourceId): rejects, nothing catches it
DetailsThrows ==
  \E s \in enabled :
    /\ aggOp = "details" /\ aggPc = "pending"
    /\ adapter[s].state = "running"
    /\ adapter' = [adapter EXCEPT ![s] = [state |-> "settled", ok |-> FALSE,
                                          results |-> <<>>]]
    /\ aggPc' = "threw"
    /\ aggError' = "adapter"
    /\ UNCHANGED <<enabled, timeoutMs, aggOp, aggArg, branch, elapsed, joined, details,
                   calls, timedOut, settled, now,
                 cacheVars, limiterVars, callerVars>>

(***************************************************************************)
(* AnimeCache (src/unnamed/part_005).                                      *)
(***************************************************************************)
Stores == {"search", "details", "recommendations"}

\* the ttl each set method gives its entries
ttlOf(store) ==
  CASE store = "search" -> searchTTL
    [] store = "details" -> detailsTTL
    [] OTHER -> defaultTTL

\* the queries given to the search methods; options is always {}
Queries == {"Naruto", "naruto", "Bleach", "One"}

\* the ids given to the details and recommendations methods
CacheIds == {"anilist-1"}

\* the data a set stores: every set stores a value of its own, so that a get
\* that returns another entry's data, or an overwritten one, shows
freshData == sets + 1

\* `${query.toLowerCase().trim()}-${JSON.stringify(options)}`
generateSearchKey(query) == toLowerCase(query) \o "-{}"

\* the position of key in the Map's entries, 0 when it has none
indexOf(entries, key) ==
  IF \E i \in 1..Len(entries) : entries[i].key = key
  THEN CHOOSE i \in 1..Len(entries) : entries[i].key = key
  ELSE 0

\* an expiry test that also expires an entry exactly ttl old
isExpiredAtTtl(item) == now - item.timestamp >= item.ttl

\* an expiry test with the operands of the subtraction exchanged
isExpiredSwapped(item) == item.timestamp - now > item.ttl

\* Date.now() - item.timestamp > item.ttl
isExpired(item) == now - item.timestamp > item.ttl

\* Map.delete(key)
mapDelete(entries, key) == SelectSeq(entries, LAMBDA e : e.key # key)

\* Map.set(key, item): an existing key keeps its place
mapSet(entries, key, item) ==
  IF indexOf(entries, key) # 0
  THEN [entries EXCEPT ![indexOf(entries, key)] = item]
  ELSE Append(entries, item)

\* entries.sort((a, b) => a[1].timestamp - b[1].timestamp): stable, ascending
RECURSIVE insertByTimestamp(_, _)
insertByTimestamp(x, sorted) ==
  IF sorted = <<>> THEN <<x>>
  ELSE IF Head(sorted).timestamp <= x.timestamp
       THEN <<Head(sorted)>> \o insertByTimestamp(x, Tail(sorted))
       ELSE <<x>> \o sorted

RECURSIVE sortByTimestamp(_)
sortByTimestamp(list) ==
  IF list = <<>> THEN <<>>
  ELSE insertByTimestamp(list[Len(list)], sortByTimestamp(SubSeq(list, 1, Len(list) - 1)))

\* a cleanup that enforces the size only and leaves the expired entries
cleanupSizeOnly(entries) ==
  LET toRemove ==
        IF Len(entries) > maxCacheSize
        THEN {sortByTimestamp(entries)[i].key : i \in 1..(Len(entries) - maxCacheSize)}
        ELSE {}
  IN  SelectSeq(entries, LAMBDA e : e.key \notin toRemove)

\* cleanup(cache): drop the expired entries; then, if the Map is still larger
\* than maxCacheSize, drop the oldest size - maxCacheSize entries
cleanup(entries) ==
  LET live == SelectSeq(entries, LAMBDA e : ~(now - e.timestamp > e.ttl))
      toRemove ==
        IF Len(live) > maxCacheSize
        THEN {sortByTimestamp(live)[i].key : i \in 1..(Len(live) - maxCacheSize)}
        ELSE {}
  IN  SelectSeq(live, LAMBDA e : e.key \notin toRemove)

NoGet == [store |-> "none", key |-> "none", hit |-> FALSE, data |-> 0,
          at |-> 0, found |-> <<>>, kept |-> FALSE]

\* a get that stamps the entry it returns with the time of the read
touched(store, key) ==
  [cache EXCEPT ![store] =
     [j \in 1..Len(cache[store]) |->
        IF cache[store][j].key = key
        THEN [cache[store][j] EXCEPT !.timestamp = now]
        ELSE cache[store][j]]]

\* return item.data: a get that deletes nothing writes nothing
untouched(store, key) == cache

\* the get methods: null (data 0) for no entry, delete and null for an expired one
CacheGets(store, key) ==
  LET entries == cache[store]
      i == indexOf(entries, key)
  IN  /\ cache' = IF i # 0 /\ isExpired(entries[i])
                  THEN [cache EXCEPT ![store] = mapDelete(entries, key)]
                  ELSE untouched(store, key)
      /\ lastGet' = [store |-> store, key |-> key,
                     hit |-> i # 0 /\ ~isExpired(entries[i]),
                     data |-> IF i # 0 /\ ~isExpired(entries[i])
                              THEN entries[i].data ELSE 0,
                     at |-> now,
                     found |-> IF i # 0 THEN <<entries[i]>> ELSE <<>>,
                     kept |-> indexOf(cache'[store], key) # 0]

CacheGet(store, key) ==
  /\ CacheGets(store, key)
  /\ UNCHANGED <<aggVars, now, sets, ticks, limiterVars, callerVars>>

\* the set methods: cleanup, then Map.set with the time and a ttl
CacheSets(store, key, data, ttl) ==
  /\ sets < MaxSets
  /\ sets' = sets + 1
  /\ cache' = [cache EXCEPT ![store] =
                 mapSet(cleanup(cache[store]), key,
                        [key |-> key, data |-> data, timestamp |-> now, ttl |-> ttl])]
  /\ lastGet' = [NoGet EXCEPT
                   !.at = now,
                   !.found = SelectSeq(cache[store], LAMBDA e : now - e.timestamp > e.ttl)]

CacheSet(store, key, data, ttl) ==
  /\ CacheSets(store, key, data, ttl)
  /\ UNCHANGED <<aggVars, now, ticks, limiterVars, callerVars>>

getSearchResults == \E q \in Queries : CacheGet("search", generateSearchKey(q))

setSearchResults ==
  \E q \in Queries : CacheSet("search", generateSearchKey(q), freshData, ttlOf("search"))

getCachedDetails == \E id \in CacheIds : CacheGet("details", id)

setAnimeDetails ==
  \E id \in CacheIds : CacheSet("details", id, freshData, ttlOf("details"))

getCachedRecommendations == \E id \in CacheIds : CacheGet("recommendations", id)

setRecommendations ==
  \E id \in CacheIds :
    CacheSet("recommendations", id, freshData, ttlOf("recommendations"))

\* clear(): empty the three Maps
clear ==
  /\ cache' = [st \in Stores |-> <<>>]
  /\ lastGet' = NoGet
  /\ UNCHANGED <<aggVars, now, sets, ticks, limiterVars, callerVars>>

\* Date.now() moves on by d milliseconds
Advance(d) ==
  /\ ticks < MaxTicks
  /\ ticks' = ticks + 1
  /\ now' = now + d
  /\ lastGet' = NoGet
  /\ UNCHANGED <<aggVars, cache, sets, limiterVars, callerVars>>

\* the waits that tell the stores' expiries apart: a millisecond, and the ttl
\* of an entry the search store or the details store holds
CacheDelays ==
  {1} \cup {e.ttl : e \in Range(cache["search"])}
      \cup {e.ttl : e \in Range(cache["details"])}

\* time moves on while a store holds an entry: isExpired and cleanup read
\* Date.now() only less an entry's timestamp
CacheClock ==
  /\ \E st \in Stores : cache[st] # <<>>
  /\ \E d \in CacheDelays : Advance(d)

\* the ttls given to the expiry test as inputs
TtlInputs == {0, 1, 2}

\* a set of the search store whose ttl is an input
setWithTtl ==
  \E q \in Queries, ttl \in TtlInputs :
    CacheSet("search", generateSearchKey(q), freshData, ttl)

MillisecondClock == Advance(1)

(***************************************************************************)
(* JikanRateLimiter (src/src/lib/data-sources/jikan.ts).                   *)
(***************************************************************************)
NoCan == [called |-> FALSE, value |-> FALSE, at |-> 0, before |-> <<>>]

NoWait == [called |-> FALSE, value |-> 0, at |-> 0, before |-> <<>>]

\* a filter that prunes nothing
keepAllRequests(reqs) == reqs

\* a filter that keeps a request exactly windowMs old
cleanOldRequestsInclusive(reqs) ==
  LET cutoff == now - windowMs
  IN  SelectSeq(reqs, LAMBDA time : time >= cutoff)

\* this.requests.filter((time) => time > cutoff), cutoff = Date.now() - windowMs
cleanOldRequests(reqs) ==
  LET cutoff == now - windowMs
  IN  SelectSeq(reqs, LAMBDA time : time > cutoff)

\* canMakeRequest(): prune, then length < maxRequests
canMakeRequest ==
  /\ requests' = cleanOldRequests(requests)
  /\ lastCan' = [called |-> TRUE, value |-> Len(requests') < maxRequests,
                 at |-> now, before |-> requests]
  /\ UNCHANGED <<aggVars, now, cacheVars, lastWait, callerVars>>

\* recordRequest(): push Date.now(), whatever canMakeRequest() would say
recordRequest ==
  /\ Len(requests) < MaxHeld
  /\ requests' = Append(requests, now)
  /\ lastCan' = NoCan
  /\ lastWait' = NoWait
  /\ UNCHANGED <<aggVars, now, cacheVars, callerVars>>

\* getWaitTime(): prune; 0 under the limit, else
\* Math.max(0, windowMs - (Date.now() - oldestRequest))
getWaitTime ==
  /\ requests' = cleanOldRequests(requests)
  /\ lastWait' = [called |-> TRUE,
                  value |-> IF Len(requests') < maxRequests THEN 0
                            ELSE Max(0, windowMs - (now - requests'[1])),
                  at |-> now, before |-> requests]
  /\ lastCan' = NoCan
  /\ UNCHANGED <<aggVars, now, cacheVars, callerVars>>

\* the waits that tell a request inside the window from one that left it
LimiterDelays == {1, windowMs - 1, windowMs}

LimiterClock ==
  \E d \in LimiterDelays :
    /\ ticks < MaxTicks
    /\ ticks' = ticks + 1
    /\ now' = now + d
    /\ lastCan' = NoCan
    /\ UNCHANGED <<aggVars, cache, lastGet, sets, requests, lastWait, callerVars>>

(***************************************************************************)
(* An adapter's makeRequest over its limiter (jikan.ts, part_007): calls   *)
(* may overlap, each one running up to its await and, after the timer, on  *)
(* to recordRequest and the fetch.                                         *)
(***************************************************************************)
\* calls of makeRequest made in one run at most
MaxCallers == 5

\* if (!canMakeRequest()) { waitTime = getWaitTime(); if (waitTime > 0) await
\* the timer }; otherwise, and with a wait of 0, recordRequest() and fetch
makeRequest ==
  LET pruned == cleanOldRequests(requests)
      can == Len(pruned) < maxRequests
      waitTime == IF can THEN 0 ELSE Max(0, windowMs - (now - pruned[1]))
  IN  /\ begun < MaxCallers
      /\ begun' = begun + 1
      /\ IF can \/ waitTime = 0
         THEN /\ requests' = Append(pruned, now)
              /\ lastCan' = NoCan
              /\ lastWait' = NoWait
              /\ sleeping' = sleeping
         ELSE /\ requests' = pruned
              /\ lastCan' = [called |-> TRUE, value |-> FALSE, at |-> now,
                             before |-> requests]
              /\ lastWait' = [called |-> TRUE, value |-> waitTime, at |-> now,
                              before |-> pruned]
              /\ sleeping' = Append(sleeping, now + waitTime)
      /\ UNCHANGED <<aggVars, now, cacheVars, mergeCall, engineCall, facade>>

\* a timer is due: the call goes on with recordRequest() and the fetch
timerResolves ==
  \E i \in 1..Len(sleeping) :
    /\ sleeping[i] <= now
    /\ requests' = Append(requests, now)
    /\ lastCan' = NoCan
    /\ lastWait' = NoWait
    /\ sleeping' = SubSeq(sleeping, 1, i - 1) \o SubSeq(sleeping, i + 1, Len(sleeping))
    /\ UNCHANGED <<aggVars, now, cacheVars, mergeCall, engineCall, facade, begun>>

(***************************************************************************)
(* RecommendationEngine (src/unnamed/part_010): similarity.                *)
(* A factor in [0, 1] is the whole number factor * SimScale; a total score *)
(* is a fraction n / d of SimScale * 100.                                  *)
(***************************************************************************)
\* 1.0 of a similarity factor; 10, 100 and the pool's set sizes and episode
\* counts divide it, so that the factors of the pool are exact
SimScale == 600

\* the weights the facade gives the engine, in hundredths
similarityWeights ==
  [genre |-> 35, studio |-> 20, score |-> 15, tags |-> 15, year |-> 8,
   demographic |-> 5, episodes |-> 2]

\* a total score of 1.0
ScoreOne == SimScale * 100

Abs(x) == IF x >= 0 THEN x ELSE 0 - x

\* new Set(arr.map((g) => g.toLowerCase()))
lowerSet(arr) == {toLowerCase(arr[i]) : i \in 1..Len(arr)}

\* intersection.size / union.size, 0 when either array is empty
jaccard(a1, a2) ==
  IF Len(a1) = 0 \/ Len(a2) = 0 THEN 0
  ELSE (Cardinality(lowerSet(a1) \cap lowerSet(a2)) * SimScale)
         \div Cardinality(lowerSet(a1) \cup lowerSet(a2))

\* 1 when the lower-cased sets share a member, else 0
overlap(a1, a2) ==
  IF Len(a1) = 0 \/ Len(a2) = 0 THEN 0
  ELSE IF lowerSet(a1) \cap lowerSet(a2) # {} THEN SimScale ELSE 0

calculateGenreSimilarity(genres1, genres2) == jaccard(genres1, genres2)

calculateStudioSimilarity(studios1, studios2) == overlap(studios1, studios2)

\* !score: undefined or 0
noScore(score) == score.d = 0 \/ score.n = 0

\* Math.max(0, 1 - Math.abs(score1 - score2) / 100)
calculateScoreSimilarity(score1, score2) ==
  IF noScore(score1) \/ noScore(score2) THEN 0
  ELSE Max(0, SimScale - (Abs(score1.n * score2.d - score2.n * score1.d) * SimScale)
                           \div (100 * score1.d * score2.d))

\* Math.max(0, 1 - Math.abs(year1 - year2) / 10)
calculateYearSimilarity(year1, year2) ==
  IF year1 = 0 \/ year2 = 0 THEN 0
  ELSE Max(0, SimScale - (Abs(year1 - year2) * SimScale) \div 10)

\* Math.min(episodes1, episodes2) / Math.max(episodes1, episodes2)
calculateEpisodeSimilarity(episodes1, episodes2) ==
  IF episodes1 = 0 \/ episodes2 = 0 THEN 0
  ELSE (Min(episodes1, episodes2) * SimScale) \div Max(episodes1, episodes2)

calculateDemographicSimilarity(demo1, demo2) == overlap(demo1, demo2)

calculateTagSimilarity(tags1, tags2) == jaccard(tags1, tags2)

\* the breakdown of calculateSimilarity
breakdown(anime1, anime2) ==
  [genre |-> calculateGenreSimilarity(anime1.genres, anime2.genres),
   studio |-> calculateStudioSimilarity(anime1.studios, anime2.studios),
   score |-> calculateScoreSimilarity(anime1.averageScore, anime2.averageScore),
   year |-> calculateYearSimilarity(anime1.year, anime2.year),
   episodes |-> calculateEpisodeSimilarity(anime1.episodes, anime2.episodes),
   demographic |-> calculateDemographicSimilarity(anime1.demographics,
                                                  anime2.demographics),
   tags |-> calculateTagSimilarity(anime1.tags, anime2.tags)]

\* calculateSimilarity(...).totalScore: the sum of factor * weight
calculateSimilarity(anime1, anime2) ==
  LET b == breakdown(anime1, anime2)
      w == similarityWeights
  IN  b.genre * w.genre + b.studio * w.studio + b.score * w.score
        + b.year * w.year + b.episodes * w.episodes
        + b.demographic * w.demographic + b.tags * w.tags

(***************************************************************************)
(* RecommendationEngine: reasons, filters and the preference score.        *)
(***************************************************************************)
\* Array.prototype.sort with (a, b) => b.weight - a.weight: stable, descending
RECURSIVE insertByWeight(_, _)
insertByWeight(x, sorted) ==
  IF sorted = <<>> THEN <<x>>
  ELSE IF Head(sorted).weight >= x.weight
       THEN <<Head(sorted)>> \o insertByWeight(x, Tail(sorted))
       ELSE <<x>> \o sorted

RECURSIVE sortByWeight(_)
sortByWeight(list) ==
  IF list = <<>> THEN <<>>
  ELSE insertByWeight(list[Len(list)], sortByWeight(SubSeq(list, 1, Len(list) - 1)))

\* arr1.filter((x1) => arr2.some((x2) => x1.toLowerCase() === x2.toLowerCase()))
common(arr1, arr2) == SelectSeq(arr1, LAMBDA x1 : toLowerCase(x1) \in lowerSet(arr2))

\* years no more than this apart give a "year" reason
YearReasonSpan == 3

generateReasons(anime1, anime2) ==
  LET commonGenres == common(anime1.genres, anime2.genres)
      commonStudios == common(anime1.studios, anime2.studios)
      yearDiff == Abs(anime1.year - anime2.year)
      genreReasons ==
        [i \in 1..Len(commonGenres) |->
           [type |-> "genre", value |-> commonGenres[i],
            weight |-> (similarityWeights.genre * SimScale) \div Len(commonGenres)]]
      studioReasons ==
        [i \in 1..Len(commonStudios) |->
           [type |-> "studio", value |-> commonStudios[i],
            weight |-> similarityWeights.studio * SimScale]]
      yearReasons ==
        IF anime1.year # 0 /\ anime2.year # 0 /\ yearDiff <= YearReasonSpan
        THEN <<[type |-> "year",
                value |-> "Both from around " \o ToString(anime2.year),
                weight |-> similarityWeights.year
                             * (SimScale - (yearDiff * SimScale) \div 10)]>>
        ELSE <<>>
  IN  sortByWeight(genreReasons \o studioReasons \o yearReasons)

\* the reasons kept at most by consolidateReasons
TopReasons == 5

\* one reason per `${type}-${value}`, in order of first occurrence, with the
\* largest weight seen; then sorted by weight, the first five
RECURSIVE consolidated(_)
consolidated(reasons) ==
  IF reasons = <<>> THEN <<>>
  ELSE LET init == consolidated(SubSeq(reasons, 1, Len(reasons) - 1))
           reason == reasons[Len(reasons)]
           same(e) == e.type = reason.type /\ e.value = reason.value
       IN  IF \E i \in 1..Len(init) : same(init[i])
           THEN [i \in 1..Len(init) |->
                   IF same(init[i])
                   THEN [init[i] EXCEPT !.weight = Max(init[i].weight, reason.weight)]
                   ELSE init[i]]
           ELSE Append(init, reason)

consolidateReasons(reasons) ==
  LET sorted == sortByWeight(consolidated(reasons))
  IN  SubSeq(sorted, 1, Min(TopReasons, Len(sorted)))

\* a filter that only looks at the disliked genres
passesGenreFilterOnly(anime, preferences) ==
  lowerSet(anime.genres) \cap lowerSet(preferences.dislikedGenres) = {}

\* passesUserFilters: minimum score, maximum episodes, year range, disliked
\* genres; 0 is the falsy value of a number, an absent bound included
passesUserFilters(anime, preferences) ==
  /\ ~(/\ ~noScore(anime.averageScore)
       /\ anime.averageScore.n < preferences.minScore * anime.averageScore.d)
  /\ ~(/\ preferences.maxEpisodes # 0
       /\ anime.episodes # 0
       /\ anime.episodes > preferences.maxEpisodes)
  /\ anime.year # 0 =>
       /\ ~(preferences.yearMin # 0 /\ anime.year < preferences.yearMin)
       /\ ~(preferences.yearMax # 0 /\ anime.year > preferences.yearMax)
  /\ lowerSet(anime.genres) \cap lowerSet(preferences.dislikedGenres) = {}

\* calculatePreferenceScore: 0.4 * matches / max(favourites, 1), + 0.2 for a
\* preferred studio, + 0.15 for a preferred demographic, + 0.25 * score / 100
calculatePreferenceScore(anime, preferences) ==
  LET genreMatches ==
        Len(SelectSeq(anime.genres,
                      LAMBDA g : toLowerCase(g) \in lowerSet(preferences.favoriteGenres)))
  IN  (genreMatches * 40 * SimScale) \div Max(Len(preferences.favoriteGenres), 1)
        + (IF lowerSet(anime.studios) \cap lowerSet(preferences.preferredStudios) # {}
           THEN 20 * SimScale ELSE 0)
        + (IF lowerSet(anime.demographics)
                \cap lowerSet(preferences.preferredDemographics) # {}
           THEN 15 * SimScale ELSE 0)
        + (IF noScore(anime.averageScore) THEN 0
           ELSE (anime.averageScore.n * 25 * SimScale) \div (100 * anime.averageScore.d))

\* generatePreferenceReasons: one "genre" reason per favourite genre of the anime
generatePreferenceReasons(anime, preferences) ==
  LET matches ==
        SelectSeq(anime.genres,
                  LAMBDA g : toLowerCase(g) \in lowerSet(preferences.favoriteGenres))
  IN  [i \in 1..Len(matches) |->
         [type |-> "genre", value |-> toLowerCase(matches[i]),
          weight |-> (40 * SimScale) \div Len(preferences.favoriteGenres)]]

(***************************************************************************)
(* RecommendationEngine: the three entry points.                           *)
(***************************************************************************)
\* the results slice(0, 20) keeps
TopResults == 20

\* recommendations.sort((a, b) => b.score - a.score): stable, descending
RECURSIVE insertByScore(_, _)
insertByScore(x, sorted) ==
  IF sorted = <<>> THEN <<x>>
  ELSE IF Head(sorted).score.n * x.score.d >= x.score.n * Head(sorted).score.d
       THEN <<Head(sorted)>> \o insertByScore(x, Tail(sorted))
       ELSE <<x>> \o sorted

RECURSIVE sortByScore(_)
sortByScore(list) ==
  IF list = <<>> THEN <<>>
  ELSE insertByScore(list[Len(list)], sortByScore(SubSeq(list, 1, Len(list) - 1)))

\* .sort(...).slice(0, 20)
topSorted(recommendations) ==
  LET sorted == sortByScore(recommendations)
  IN  SubSeq(sorted, 1, Min(TopResults, Len(sorted)))

\* a test of the whole record in place of its id
sameRecord(candidate, sourceAnime) == candidate = sourceAnime

\* candidate.id === sourceAnime.id
sameAnime(candidate, sourceAnime) == candidate.id = sourceAnime.id

\* userPreferences && !this.passesUserFilters(candidate, userPreferences);
\* <<>> is no preferences given
filteredOut(candidate, userPreferences) ==
  userPreferences # <<>> /\ ~passesUserFilters(candidate, userPreferences[1])

getContentBasedRecommendations(sourceAnime, candidateAnime, userPreferences) ==
  LET kept == SelectSeq(candidateAnime,
                        LAMBDA c : /\ ~sameAnime(c, sourceAnime)
                                   /\ ~filteredOut(c, userPreferences))
  IN  topSorted([i \in 1..Len(kept) |->
                   [anime |-> kept[i],
                    score |-> [n |-> calculateSimilarity(sourceAnime, kept[i]), d |-> 1],
                    reasons |-> generateReasons(sourceAnime, kept[i])]])

RECURSIVE sumOfSimilarities(_, _)
sumOfSimilarities(sourceAnimeList, candidate) ==
  IF sourceAnimeList = <<>> THEN 0
  ELSE calculateSimilarity(Head(sourceAnimeList), candidate)
         + sumOfSimilarities(Tail(sourceAnimeList), candidate)

\* the loop of getHybridRecommendations: the mean similarity to the sources
\* (0 / 0 for no source) and the consolidated reasons
hybridScored(sourceAnimeList, candidateAnime, userPreferences) ==
  LET kept == SelectSeq(candidateAnime,
                        LAMBDA c : /\ ~\E j \in 1..Len(sourceAnimeList) :
                                         sameAnime(c, sourceAnimeList[j])
                                   /\ ~filteredOut(c, userPreferences))
  IN  topSorted([i \in 1..Len(kept) |->
                   [anime |-> kept[i],
                    score |-> [n |-> sumOfSimilarities(sourceAnimeList, kept[i]),
                               d |-> Len(sourceAnimeList)],
                    reasons |->
                      consolidateReasons(
                        Concat([j \in 1..Len(sourceAnimeList) |->
                                  generateReasons(sourceAnimeList[j], kept[i])]))]])

\* the loop entered also with no source
hybridUnguarded(sourceAnimeList, candidateAnime, userPreferences) ==
  hybridScored(sourceAnimeList, candidateAnime, userPreferences)

\* if (sourceAnimeList.length === 0) return []
getHybridRecommendations(sourceAnimeList, candidateAnime, userPreferences) ==
  IF Len(sourceAnimeList) = 0 THEN <<>>
  ELSE hybridScored(sourceAnimeList, candidateAnime, userPreferences)

getPreferenceBasedRecommendations(candidateAnime, userPreferences) ==
  LET kept == SelectSeq(candidateAnime, LAMBDA c : passesUserFilters(c, userPreferences))
  IN  topSorted([i \in 1..Len(kept) |->
                   [anime |-> kept[i],
                    score |-> [n |-> calculatePreferenceScore(kept[i], userPreferences),
                               d |-> 1],
                    reasons |-> generatePreferenceReasons(kept[i], userPreferences)]])

(***************************************************************************)
(* RecommendationEngine: the calls made on it.                             *)
(***************************************************************************)
\* candidates in one pool at most
MaxPool == 2
\* reference records in one hybrid call at most
MaxRefs == 2

\* the records given to the engine; two of them are the same anime (the same
\* id) as two sources describe it, one has no score, and one has the score 0
\* that Math.round(movie.vote_average * 10) gives an unrated TMDB entry
EnginePool ==
  {Arrays(AnimeData(<<"anilist", "1">>, "AniList", <<"Naruto">>, <<>>, <<>>, <<>>,
                    2002, 24, 16, Score(85)),
          <<"Action", "Adventure">>, <<"Ninja">>, <<"Pierrot">>, <<"Shounen">>),
   Arrays(AnimeData(<<"anilist", "1">>, "AniList", <<"Naruto">>, <<"NARUTO">>, <<>>, <<>>,
                    2002, 24, 20, Score(80)),
          <<"action">>, <<"Ninja">>, <<"Pierrot">>, <<>>),
   Arrays(AnimeData(<<"anilist", "2">>, "AniList", <<"Bleach">>, <<>>, <<>>, <<>>,
                    2004, 12, 16, Score(60)),
          <<"ACTION", "Comedy">>, <<>>, <<"PIERROT">>, <<"Shounen">>),
   Arrays(AnimeData(<<"mal", "3">>, "MyAnimeList", <<"One", "Piece">>, <<>>, <<>>, <<>>,
                    0, 0, 17, Undefined),
          <<"Adventure">>, <<>>, <<>>, <<>>),
   Arrays(AnimeData(<<"tmdb", "4">>, "TMDB", <<"Piece">>, <<>>, <<>>, <<>>,
                    2010, 24, 17, Score(0)),
          <<"Comedy">>, <<"Ninja">>, <<>>, <<>>)}

PoolLists == DistinctSeqs(EnginePool, MaxPool)

RefLists == DistinctSeqs(EnginePool, MaxRefs)

UserPreferences(fav, disliked, demo, minScore, maxEpisodes, studios, yearMin, yearMax) ==
  [favoriteGenres |-> fav, dislikedGenres |-> disliked,
   preferredDemographics |-> demo, minScore |-> minScore,
   maxEpisodes |-> maxEpisodes, preferredStudios |-> studios,
   yearMin |-> yearMin, yearMax |-> yearMax]

\* the preferences given: a minimum score alone, and every filter at once
PreferenceInputs ==
  {UserPreferences(<<>>, <<>>, <<>>, 70, 0, <<>>, 0, 0),
   UserPreferences(<<"Action", "Adventure">>, <<"COMEDY">>, <<"shounen">>, 0, 12,
                   <<"pierrot">>, 2000, 2005)}

\* userPreferences?: given or not
OptionalPreferences == {<<>>} \cup {<<p>> : p \in PreferenceInputs}

NoEngineCall ==
  [op |-> "none", refs |-> <<>>, pool |-> <<>>, prefs |-> <<>>, result |-> <<>>]

\* a call on the engine; the engine keeps nothing between calls
EngineCall(op, refs, pool, prefs, result) ==
  /\ engineCall.op = "none"
  /\ engineCall' = [op |-> op, refs |-> refs, pool |-> pool, prefs |-> prefs,
                    result |-> result]
  /\ UNCHANGED <<aggVars, now, cacheVars, limiterVars, mergeCall, facade, begun, sleeping>>

ContentBased ==
  \E sourceAnime \in EnginePool, pool \in PoolLists, prefs \in OptionalPreferences :
    EngineCall("content", <<sourceAnime>>, pool, prefs,
               getContentBasedRecommendations(sourceAnime, pool, prefs))

Hybrid ==
  \E refs \in RefLists, pool \in PoolLists, prefs \in OptionalPreferences :
    EngineCall("hybrid", refs, pool, prefs, getHybridRecommendations(refs, pool, prefs))

\* the record searchAnime returns for the records of id 1 that AniList and
\* MyAnimeList hold in the catalogue: the candidates the facade hands to
\* getPreferenceBasedRecommendations are search results
searched ==
  mergeAnimeData(<<CHOOSE a \in Catalogue["anilist"] : a.id = <<"anilist", "1">>,
                   CHOOSE a \in Catalogue["myanimelist"] : a.id = <<"mal", "1">>>>)

\* the pools of getPreferenceBasedRecommendations
CandidateLists == DistinctSeqs(EnginePool \cup {searched}, MaxPool)

\* the profiles given to it: those above, and one of a single favourite genre
Profiles ==
  PreferenceInputs \cup {UserPreferences(<<"action">>, <<>>, <<>>, 0, 0, <<"pierrot">>, 0, 0)}

PreferenceBased ==
  \E pool \in CandidateLists, p \in Profiles :
    EngineCall("preference", <<>>, pool, <<p>>,
               getPreferenceBasedRecommendations(pool, p))

(***************************************************************************)
(* DataAggregator: the merges applied to given records.                    *)
(***************************************************************************)
\* records offered to one mergeRecommendationResults at most
MaxOffered == 22
\* of them, records whose key was offered before
MaxDups == 1
\* contributors of one merge group at most
MaxGroup == 4

\* no merge applied yet
NoMerge == [op |-> "none", input |-> <<>>, result |-> <<>>]

\* the k-th recommendation an adapter returns, and the same anime (the same
\* key) as another adapter returns it
Offered(k, source, conf) ==
  Arrays(AnimeData(<<toLowerCase(source), ToString(k)>>, source, <<"Naruto">>, <<>>, <<>>,
                   <<>>, 2000 + k, 12, conf, Score(80)),
         <<"Action">>, <<>>, <<>>, <<>>)

\* mergeRecommendationResults of one more record: of a new key, or of the
\* first key again with a higher or with the same confidence
OfferRecommendation ==
  LET list == IF mergeCall.op = "recs" THEN mergeCall.input[1].results ELSE <<>>
      nKeys == Cardinality({generateAnimeKey(list[i]) : i \in 1..Len(list)})
      again == {Offered(1, "Jikan", conf) : conf \in {15, 17}}
      next == {Offered(nKeys + 1, "AniList", 15)}
             \cup (IF nKeys >= 1 /\ Len(list) - nKeys < MaxDups THEN again ELSE {})
  IN  /\ mergeCall.op \in {"none", "recs"}
      /\ Len(list) < MaxOffered
      /\ \E anime \in next :
           LET given == <<[state |-> "fulfilled", results |-> Append(list, anime),
                           error |-> FALSE]>>
           IN  mergeCall' = [op |-> "recs", input |-> given,
                             result |-> mergeRecommendationResults(given)]
      /\ UNCHANGED <<aggVars, now, cacheVars, limiterVars, engineCall, facade, begun, sleeping>>

\* five sources' records of one anime: confidences .9, .7, .7, .6, .6; one
\* source has no score and one the score 0 of an unrated TMDB entry
Contributors ==
  {Scalars(Arrays(AnimeData(<<"anilist", "1">>, "AniList", <<"Naruto">>, <<>>, <<>>, <<>>,
                            2002, 220, 18, Score(85)),
                  <<"Action", "Adventure">>, <<"Ninja">>, <<"Pierrot">>, <<"Shounen">>),
           <<>>, <<>>, <<"anilist.png">>, <<>>),
   Scalars(Arrays(AnimeData(<<"mal", "1">>, "MyAnimeList", <<>>, <<"Naruto">>, <<"NARUTO">>,
                            <<>>, 2002, 220, 14, Score(78)),
                  <<"action", "Comedy">>, <<>>, <<"PIERROT">>, <<"Shounen">>),
           <<"A", "ninja">>, <<"FINISHED">>, <<"mal.png">>, <<2002>>),
   Scalars(Arrays(AnimeData(<<"jikan", "1">>, "Jikan", <<"Naruto">>, <<>>, <<>>, <<>>,
                            2002, 220, 14, Undefined),
                  <<"Adventure">>, <<"Ninja">>, <<>>, <<>>),
           <<"Ninja", "boy">>, <<>>, <<>>, <<>>),
   Arrays(AnimeData(<<"kitsu", "1">>, "Kitsu", <<"Naruto">>, <<>>, <<>>, <<>>,
                    2002, 220, 12, Score(80)),
          <<"Comedy">>, <<>>, <<"Pierrot">>, <<>>),
   Arrays(AnimeData(<<"tmdb", "1">>, "TMDB", <<"Naruto">>, <<>>, <<>>, <<>>,
                    2002, 220, 12, Score(0)),
          <<>>, <<>>, <<>>, <<>>)}

\* the groups mergeSearchResults hands to mergeAnimeData: two records or more
GroupInputs == {g \in DistinctSeqs(Contributors, MaxGroup) : Len(g) >= 2}

MergeGroup ==
  /\ mergeCall.op = "none"
  /\ \E animeList \in GroupInputs :
       mergeCall' = [op |-> "merge", input |-> animeList,
                     result |-> <<mergeAnimeData(animeList)>>]
  /\ UNCHANGED <<aggVars, now, cacheVars, limiterVars, engineCall, facade, begun, sleeping>>

\* the caller takes the result
MergeReturn ==
  /\ mergeCall.op # "none"
  /\ mergeCall' = NoMerge
  /\ UNCHANGED <<aggVars, now, cacheVars, limiterVars, engineCall, facade, begun, sleeping>>

\* the caller takes the result
EngineReturn ==
  /\ engineCall.op # "none"
  /\ engineCall' = NoEngineCall
  /\ UNCHANGED <<aggVars, now, cacheVars, limiterVars, mergeCall, facade, begun, sleeping>>

(***************************************************************************)
(* AniMatchService (src/src/lib/animatch-service.ts): searchAnime and      *)
(* getAnimeDetails over the cache and the aggregator.  pc is "idle",       *)
(* "awaiting" (the aggregator's promise), "returned" or "threw"; n counts  *)
(* the calls made; before is the three stores as the call found them.      *)
(***************************************************************************)
MaxCalls == 2

\* AniMatchService with no call in progress
FacadeIdle == [op |-> "none", pc |-> "idle", key |-> <<>>, hit |-> FALSE,
               result |-> <<>>, n |-> 0, before |-> <<>>]

\* the queries given to the facade's searchAnime, options {}
FacadeQueries == {"Naruto", "naruto"}

\* the ids given to the facade's getAnimeDetails
FacadeIds == {<<"anilist", "1">>, <<"mal", "1">>}

\* what the adapters answer a search of the facade with: nothing, or their
\* record of local id 1
FacadeLists(s) == {<<>>} \cup {<<a>> : a \in {c \in Catalogue[s] : c.id[2] = "1"}}

FacadeAdapterReturns ==
  \E s \in enabled : \E list \in FacadeLists(s) :
    AdapterSettles(s, [ok |-> TRUE, results |-> list])

\* a test that takes every get for a miss
neverCached(got) == FALSE

\* if (cached): the get returned an entry's data, not null
isCached(got) == got.hit

\* the call begins: the cache is asked first; on a hit the cached value is
\* returned, on a miss the aggregator's method is called and awaited
FacadeCalls(op, store, key, started) ==
  /\ facade.pc = "idle"
  /\ facade.n < MaxCalls
  /\ CacheGets(store, key)
  /\ IF isCached(lastGet')
     THEN /\ facade' = [op |-> op, pc |-> "returned", key |-> key, hit |-> TRUE,
                        result |-> lastGet'.data, n |-> facade.n + 1,
                        before |-> cache]
          /\ UNCHANGED aggVars
     ELSE /\ facade' = [op |-> op, pc |-> "awaiting", key |-> key, hit |-> FALSE,
                        result |-> <<>>, n |-> facade.n + 1, before |-> cache]
          /\ started
  /\ UNCHANGED <<now, sets, ticks, limiterVars, mergeCall, engineCall, begun, sleeping>>

\* searchAnime(query): getSearchResults, then this.aggregator.searchAnime
FacadeSearchAnime ==
  \E q \in FacadeQueries :
    FacadeCalls("search", "search", generateSearchKey(q),
                FanOutStarts("search", <<>>, "searchAnime"))

\* getAnimeDetails(id): animeCache.getAnimeDetails, then the aggregator's
FacadeGetAnimeDetails ==
  \E id \in FacadeIds :
    FacadeCalls("details", "details", id, DetailsStarts(id))

\* the aggregator's searchAnime settled: setSearchResults and return results,
\* or the catch's throw new Error("Search failed: ...")
FacadeSearchSettles ==
  /\ facade.pc = "awaiting" /\ facade.op = "search"
  /\ aggPc \in {"done", "threw"}
  /\ IF aggPc = "done"
     THEN /\ CacheSets("search", facade.key, output, ttlOf("search"))
          /\ facade' = [facade EXCEPT !.pc = "returned", !.result = output]
     ELSE /\ facade' = [facade EXCEPT !.pc = "threw"]
          /\ UNCHANGED <<cache, lastGet, sets>>
  /\ Returns
  /\ UNCHANGED <<now, ticks, limiterVars, mergeCall, engineCall, begun, sleeping>>

\* a test that takes null for a record too
alwaysObtained(d) == TRUE

\* if (details): the aggregator returned a record, not null
obtained(d) == d # <<>>

\* the aggregator's getAnimeDetails settled: if (details) setAnimeDetails, and
\* return details; or the catch's throw
FacadeDetailsSettles ==
  /\ facade.pc = "awaiting" /\ facade.op = "details"
  /\ aggPc \in {"done", "threw"}
  /\ IF aggPc = "done"
     THEN /\ IF obtained(details)
             THEN CacheSets("details", facade.key, details, ttlOf("details"))
             ELSE UNCHANGED <<cache, lastGet, sets>>
          /\ facade' = [facade EXCEPT !.pc = "returned", !.result = details]
     ELSE /\ facade' = [facade EXCEPT !.pc = "threw"]
          /\ UNCHANGED <<cache, lastGet, sets>>
  /\ Returns
  /\ UNCHANGED <<now, ticks, limiterVars, mergeCall, engineCall, begun, sleeping>>

\* the caller takes what the facade returned or threw
FacadeReturn ==
  /\ facade.pc \in {"returned", "threw"}
  /\ facade' = [FacadeIdle EXCEPT !.n = facade.n]
  /\ UNCHANGED <<aggVars, now, cacheVars, limiterVars, mergeCall, engineCall, begun, sleeping>>

(***************************************************************************)
(* Specifications of the aggregator.                                       *)
(***************************************************************************)
RestInit ==
  /\ now = 0
  /\ cache = [st \in {"search", "details", "recommendations"} |-> <<>>]
  /\ lastGet = NoGet
  /\ sets = 0
  /\ ticks = 0
  /\ requests = <<>>
  /\ lastCan = NoCan
  /\ lastWait = NoWait
  /\ mergeCall = NoMerge
  /\ engineCall = NoEngineCall
  /\ facade = FacadeIdle
  /\ begun = 0
  /\ sleeping = <<>>

InitAgg == AggInit /\ RestInit

NextAgg ==
  \/ SearchAnime
  \/ GetRecommendations
  \/ AdapterReturns
  \/ AdapterThrows
  \/ Elapse
  \/ TimerFires
  \/ Join
  \/ GetAnimeDetails
  \/ DetailsReturns
  \/ DetailsThrows
  \/ Return

SpecAgg == InitAgg /\ [][NextAgg]_vars

\* The event loop runs a due timer and a settled promise's continuation, and
\* the clock goes on; nothing makes an adapter answer.
FairSpecAgg ==
  /\ SpecAgg
  /\ WF_vars(Elapse)
  /\ WF_vars(TimerFires)
  /\ WF_vars(Join)

(***************************************************************************)
(* Properties of the aggregator.                                           *)
(***************************************************************************)
Keys(list) == {generateAnimeKey(a) : a \in Range(list)}

\* the adapters whose own answer won the race
Succeeded ==
  {s \in enabled : adapter[s].state = "settled" /\ adapter[s].ok /\ s \notin timedOut}

\* the adapters that threw, or whose timer won the race
Failed ==
  {s \in enabled : s \in timedOut \/ (adapter[s].state = "settled" /\ ~adapter[s].ok)}

SearchDone == aggOp = "search" /\ aggPc = "done"

\* C1: searchAnime never rejects because of an adapter: whatever subset of the
\* adapters throws or times out, the call returns, each failing adapter
\* contributes the empty list, and the keys of the output are exactly the keys
\* of the records the succeeding adapters returned, one output record per key.
C1_SearchSurvivesAdapterFailure ==
  aggOp = "search" =>
    /\ aggPc # "threw"
    /\ aggPc = "done" =>
         /\ Succeeded \cup Failed = enabled
         /\ \A s \in Failed : branch[s].results = <<>> /\ branch[s].error
         /\ \A s \in Succeeded : branch[s].results = adapter[s].results
         /\ Keys(output) = UNION {Keys(adapter[s].results) : s \in Succeeded}
         /\ Len(output) = Cardinality(Keys(output))

\* a search returned although one adapter threw and another timed out, with
\* the records of a third in the output
C1_Witness ==
  /\ SearchDone
  /\ \E s \in enabled : adapter[s].state = "settled" /\ ~adapter[s].ok /\ s \notin timedOut
  /\ timedOut # {}
  /\ \E s \in Succeeded : adapter[s].results # <<>>
  /\ output # <<>>

\* C2: searchAnime and getRecommendations have returned a result only when no
\* branch of an enabled adapter is still pending.
C2_JoinBeforeMerge ==
  (aggOp \in {"search", "recs"} /\ aggPc = "done") =>
    \A s \in enabled : branch[s].state = "fulfilled"

\* getRecommendations returned after one branch ended by its timeout, one by a
\* thrown error and one with records
C2_Witness ==
  /\ aggOp = "recs" /\ aggPc = "done"
  /\ timedOut # {}
  /\ \E s \in enabled : adapter[s].state = "settled" /\ ~adapter[s].ok /\ s \notin timedOut
  /\ output # <<>>

\* C3: a pending searchAnime eventually returns, also when adapters never
\* answer: the timer of each such branch ends it.
C3_SearchTerminates ==
  (aggOp = "search" /\ aggPc = "pending") ~> (aggOp = "search" /\ aggPc = "done")

\* a search with the default timeout returned although no adapter ever
\* answered: every branch was ended by its timer, once the timeout had passed
C3_Witness ==
  /\ SearchDone
  /\ timeoutMs = DefaultTimeout
  /\ elapsed >= DefaultTimeout
  /\ timedOut = enabled
  /\ \A s \in enabled : adapter[s].state = "running"

\* C4: every record searchAnime returns has its averageScore, when present,
\* within [0, 100] and its confidence within [0, 1].
C4_OutputInRange ==
  SearchDone =>
    \A a \in Range(output) :
      /\ a.averageScore.d # 0 =>
           (0 <= a.averageScore.n /\ a.averageScore.n <= 100 * a.averageScore.d)
      /\ 0 <= a.confidence /\ a.confidence <= ConfidenceOne

\* the records of responses that share key k
contributors(k) == groupOf(allResults(joined), k)

\* C5: for every group of two or more records sharing a MergeKey, the merged
\* record's confidence is at least every contributor's confidence.
C5_MergedConfidenceAtLeastMax ==
  SearchDone =>
    \A k \in Keys(output) :
      Len(contributors(k)) >= 2 =>
        \A o \in {x \in Range(output) : generateAnimeKey(x) = k} :
          \A c \in Range(contributors(k)) : o.confidence >= c.confidence

\* a search merged a group of three and a group of two, the latter to a
\* confidence below 1
C5_Witness ==
  /\ SearchDone
  /\ \E k \in Keys(output) : Len(contributors(k)) = 3
  /\ \E k \in Keys(output) :
       /\ Len(contributors(k)) = 2
       /\ \E o \in Range(output) : generateAnimeKey(o) = k /\ o.confidence < ConfidenceOne

\* C10: getAnimeDetails with an id whose prefix is no key of the source
\* registry rejects with the unknown-source error and calls no adapter.
C10_UnknownSourceThrows ==
  (aggOp = "details" /\ split2(aggArg).sourceName \notin enabled) =>
    /\ aggPc = "threw"
    /\ aggError = "Unknown source"
    /\ calls = {}
    /\ \A s \in AllSources : adapter[s].state = "idle"

\* getAnimeDetails("mal-1") was rejected: "mal" is the prefix MyAnimeList gives
\* its ids, and no registry key
C10_Witness ==
  /\ aggOp = "details" /\ aggPc = "threw"
  /\ aggArg = <<"mal", "1">>
  /\ "myanimelist" \in enabled

\* averageScore x confidence of a returned record, a missing score counted as 0
product(r) ==
  IF r.averageScore.d = 0 THEN [n |-> 0, d |-> 1]
  ELSE [n |-> r.averageScore.n * r.confidence, d |-> r.averageScore.d]

\* C14: the list searchAnime returns is in non-increasing order of
\* averageScore x confidence, a missing averageScore counted as 0: every record's
\* product is at least that of the record after it.
C14_SearchOutputOrdered ==
  SearchDone =>
    \A i \in 1..(Len(output) - 1) :
      product(output[i]).n * product(output[i + 1]).d
        >= product(output[i + 1]).n * product(output[i]).d

\* the record the first source returned first is the last of the list returned,
\* below a record with a strictly greater product
C14_Witness ==
  /\ SearchDone
  /\ Len(output) >= 2
  /\ allResults(joined) # <<>>
  /\ generateAnimeKey(allResults(joined)[1]) = generateAnimeKey(output[Len(output)])
  /\ product(output[1]).n * product(output[Len(output)]).d
       > product(output[Len(output)]).n * product(output[1]).d

\* the race of source s was settled by its timer: the branch returned the
\* catch's { results: [], error }
abandoned(s) == branch[s] = [state |-> "fulfilled", results |-> <<>>, error |-> TRUE]

\* the adapter of an abandoned branch delivers its result in this step
lateDelivery(s) ==
  /\ s \in timedOut
  /\ adapter[s].state = "running"
  /\ adapter'[s].state = "settled"

\* C17: once the timer of an adapter has fired before the adapter responded, the
\* adapter's contribution to the call in progress is the empty list, and a result
\* it delivers afterwards changes neither the branches, nor the responses the
\* call's output is merged from, nor anything else the aggregator, the cache or
\* the limiter holds.
C17_LateResultDiscarded ==
  /\ [](\A s \in timedOut :
          /\ abandoned(s)
          /\ (aggPc = "done" /\ aggOp \in {"search", "recs"}) =>
               \A i \in 1..Len(sourceEntries) :
                 sourceEntries[i] = s => joined[i].results = <<>>)
  /\ [][\A s \in enabled :
          lateDelivery(s) =>
            UNCHANGED <<enabled, timeoutMs, aggOp, aggPc, aggArg, branch, elapsed,
                        joined, details, aggError, calls, timedOut, settled, now,
                        cacheVars, limiterVars, callerVars>>]_vars

\* a search returned records although the timer of one source had fired, and
\* that source's adapter has delivered a non-empty list since
C17_Witness ==
  /\ SearchDone
  /\ output # <<>>
  /\ \E s \in timedOut :
       /\ adapter[s].state = "settled" /\ adapter[s].ok
       /\ adapter[s].results # <<>>
       /\ \A o \in Range(output) : o.source # adapter[s].results[1].source

(***************************************************************************)
(* Specification of the cache.                                             *)
(***************************************************************************)
InitCache == AggInit /\ RestInit /\ enabled = AllSources /\ timeoutMs = DefaultTimeout

NextCache ==
  \/ getSearchResults
  \/ setSearchResults
  \/ getCachedDetails
  \/ setAnimeDetails
  \/ getCachedRecommendations
  \/ setRecommendations
  \/ clear
  \/ CacheClock

SpecCache == InitCache /\ [][NextCache]_vars

\* the expiry test on entries whose ttl is an input
NextTtl ==
  \/ setWithTtl
  \/ getSearchResults
  \/ MillisecondClock

SpecTtl == InitCache /\ [][NextTtl]_vars

(***************************************************************************)
(* Specification of the rate limiter.                                      *)
(***************************************************************************)
NextLimiter ==
  \/ canMakeRequest
  \/ recordRequest
  \/ getWaitTime
  \/ LimiterClock

SpecLimiter == InitCache /\ [][NextLimiter]_vars

(***************************************************************************)
(* Properties of the cache.                                                *)
(***************************************************************************)
\* C6: a store never holds more than maxCacheSize entries, whatever sets were
\* made on it.
C6_StoreWithinCap == \A st \in Stores : Len(cache[st]) <= maxCacheSize

GetMade == lastGet.store # "none"

\* the age, at the get, of the entry the get found
foundAge == lastGet.at - lastGet.found[1].timestamp

\* C7: a get returns the stored value only if the entry is at most ttl old; it
\* misses when there is no entry; and when the entry is older than its ttl it
\* misses and the entry is gone from the store after the get.
C7_GetNeverReturnsExpired ==
  GetMade =>
    /\ lastGet.hit =>
         /\ lastGet.found # <<>>
         /\ lastGet.data = lastGet.found[1].data
         /\ foundAge <= lastGet.found[1].ttl
    /\ lastGet.found = <<>> => (~lastGet.hit /\ ~lastGet.kept)
    /\ (lastGet.found # <<>> /\ foundAge > lastGet.found[1].ttl) =>
         (~lastGet.hit /\ ~lastGet.kept)

\* a get of the details store found an entry one millisecond past its ttl,
\* missed, and removed it
C7_Witness ==
  /\ lastGet.store = "details"
  /\ lastGet.found # <<>>
  /\ foundAge = detailsTTL + 1
  /\ ~lastGet.hit
  /\ indexOf(cache["details"], lastGet.key) = 0

C9_WaitThenProceed ==
  /\ (lastWait.called /\ Len(lastWait.before) = maxRequests
        /\ \A i \in 1..Len(lastWait.before) : lastWait.at - lastWait.before[i] < windowMs)
       => lastWait.value > 0
  /\ (lastCan.called /\ Len(lastCan.before) = maxRequests
        /\ lastCan.at - lastCan.before[1] >= windowMs)
       => lastCan.value

\* right after three requests getWaitTime() was positive, and exactly
\* windowMs after the first of them canMakeRequest() returned true
C9_Witness ==
  /\ lastWait.called /\ lastWait.value > 0
  /\ Len(lastWait.before) = maxRequests
  /\ lastWait.at = lastWait.before[maxRequests]
  /\ lastCan.called /\ lastCan.value
  /\ lastCan.before = lastWait.before
  /\ lastCan.at = lastCan.before[1] + windowMs

(***************************************************************************)
(* Specification of the recommendation engine.                             *)
(***************************************************************************)
NextEngine ==
  \/ ContentBased
  \/ Hybrid
  \/ PreferenceBased
  \/ EngineReturn

SpecEngine == InitCache /\ [][NextEngine]_vars

(***************************************************************************)
(* Properties of the recommendation engine.                                *)
(***************************************************************************)
EngineCalled == engineCall.op # "none"

\* the ids of the records a call recommended
resultIds == {engineCall.result[i].anime.id : i \in 1..Len(engineCall.result)}

\* C11: no result of getContentBasedRecommendations or getHybridRecommendations
\* has the id of a reference record.
C11_ReferenceExcluded ==
  engineCall.op \in {"content", "hybrid"} =>
    \A j \in 1..Len(engineCall.refs) : engineCall.refs[j].id \notin resultIds

\* the pool held the reference's anime, under the reference's id, as another
\* source describes it, next to another candidate that was recommended
C11_Witness ==
  /\ engineCall.op = "content"
  /\ \E i \in 1..Len(engineCall.pool) :
       /\ engineCall.pool[i].id = engineCall.refs[1].id
       /\ engineCall.pool[i] # engineCall.refs[1]
  /\ Len(engineCall.result) = Len(engineCall.pool) - 1
  /\ Len(engineCall.result) >= 1

PreferencesApplied == EngineCalled /\ engineCall.prefs # <<>>

\* C12: with preferences applied, every result that has an averageScore has one
\* of at least minScore.
C12_MinScoreRespected ==
  PreferencesApplied =>
    \A i \in 1..Len(engineCall.result) :
      LET score == engineCall.result[i].anime.averageScore
      IN  score.d # 0 => score.n >= engineCall.prefs[1].minScore * score.d

\* C15: getHybridRecommendations with no reference, and each of the three
\* methods with an empty candidate pool, returns the empty list.
C15_EmptyInEmptyOut ==
  EngineCalled =>
    /\ (engineCall.op = "hybrid" /\ engineCall.refs = <<>>) => engineCall.result = <<>>
    /\ engineCall.pool = <<>> => engineCall.result = <<>>

\* a hybrid call with no reference and a pool of two returned the empty list
C15_Witness ==
  /\ engineCall.op = "hybrid"
  /\ engineCall.refs = <<>>
  /\ Len(engineCall.pool) = MaxPool
  /\ engineCall.result = <<>>

(***************************************************************************)
(* Specification of the merges.                                            *)
(***************************************************************************)
NextMerge ==
  \/ OfferRecommendation
  \/ MergeGroup
  \/ MergeReturn

SpecMerge == InitCache /\ [][NextMerge]_vars

(***************************************************************************)
(* Properties of the merges.                                               *)
(***************************************************************************)
\* the records offered to the mergeRecommendationResults just applied
offered == allResults(mergeCall.input)

\* C13: getRecommendations returns at most 20 records, no two of one key, each
\* of them one of the records the adapters returned and of the highest
\* confidence among the returned records of its key.
C13_RecommendationsMerged ==
  mergeCall.op = "recs" =>
    LET out == mergeCall.result
    IN  /\ Len(out) <= 20
        /\ \A i, j \in 1..Len(out) :
             i # j => generateAnimeKey(out[i]) # generateAnimeKey(out[j])
        /\ \A i \in 1..Len(out) :
             /\ \E k \in 1..Len(offered) : offered[k] = out[i]
             /\ \A k \in 1..Len(offered) :
                  generateAnimeKey(offered[k]) = generateAnimeKey(out[i])
                    => offered[k].confidence <= out[i].confidence

\* more than 20 keys were offered, 20 records came back, and the first key is
\* held by the later record of higher confidence
C13_Witness ==
  /\ mergeCall.op = "recs"
  /\ Cardinality({generateAnimeKey(offered[k]) : k \in 1..Len(offered)}) > 20
  /\ Len(mergeCall.result) = 20
  /\ mergeCall.result[1].confidence > offered[1].confidence
  /\ generateAnimeKey(mergeCall.result[1]) = generateAnimeKey(offered[1])

GroupMerged == mergeCall.op = "merge"

\* the largest confidence of the group just merged
groupMax ==
  CHOOSE c \in {mergeCall.input[i].confidence : i \in 1..Len(mergeCall.input)} :
    \A i \in 1..Len(mergeCall.input) : mergeCall.input[i].confidence <= c

\* C18: the confidence of a merged group of n >= 2 records is
\* min(1, max + min(0.2, 0.1 * (n - 1))), in twentieths.
C18_CombinedConfidence ==
  GroupMerged =>
    mergeCall.result[1].confidence =
      Min(20, groupMax + Min(4, 2 * (Len(mergeCall.input) - 1)))

\* four records of confidence at most .7 merged to .9: the bonus stopped at .2
C18_Witness ==
  /\ GroupMerged
  /\ Len(mergeCall.input) = 4
  /\ groupMax = 14
  /\ mergeCall.result[1].confidence = 18

\* the contributors of the group just merged that have a score
scored == {i \in 1..Len(mergeCall.input) : mergeCall.input[i].averageScore.d # 0}

contributorWeight(i) ==
  mergeCall.input[i].confidence * sourceWeight(mergeCall.input[i].source)

contributorScore(i) == mergeCall.input[i].averageScore.n * contributorWeight(i)

RECURSIVE sumOfWeights(_)
sumOfWeights(S) ==
  IF S = {} THEN 0
  ELSE LET i == CHOOSE x \in S : TRUE IN contributorWeight(i) + sumOfWeights(S \ {i})

RECURSIVE sumOfScores(_)
sumOfScores(S) ==
  IF S = {} THEN 0
  ELSE LET i == CHOOSE x \in S : TRUE IN contributorScore(i) + sumOfScores(S \ {i})

\* C19: the merged averageScore is the average of the scores of the
\* contributors that have one, each weighted by confidence * source weight,
\* and is undefined exactly when no contributor has a score.
C19_WeightedAverage ==
  GroupMerged =>
    LET merged == mergeCall.result[1].averageScore
    IN  IF scored = {} THEN merged.d = 0
        ELSE /\ merged.d # 0
             /\ merged.n * sumOfWeights(scored) = sumOfScores(scored) * merged.d

\* the value of a field, of the title when variant names one, in a record
fieldOf(anime, field, variant) ==
  IF variant = "" THEN anime[field] ELSE anime[field][variant]

\* the first non-empty value of the field, scanning the group in descending
\* order of confidence; <<>> when no contributor has one
firstNonEmpty(field, variant) ==
  LET sorted == sortByConfidence(mergeCall.input)
      having == {i \in 1..Len(sorted) : fieldOf(sorted[i], field, variant) # <<>>}
  IN  IF having = {} THEN <<>>
      ELSE fieldOf(sorted[CHOOSE i \in having : \A j \in having : i <= j], field, variant)

\* the scalar fields of a record and the variants of its title
ScalarFields ==
  {<<"title", "english">>, <<"title", "romaji">>, <<"title", "native">>,
   <<"title", "common">>, <<"description", "">>, <<"status", "">>,
   <<"coverImage", "">>, <<"startDate", "">>}

\* C21: each scalar field of a merged record (the title variants, description,
\* image, start date, status) is the first non-empty value of that field in the
\* group scanned in descending order of confidence.
C21_FirstNonEmptyWins ==
  GroupMerged =>
    \A f \in ScalarFields :
      fieldOf(mergeCall.result[1], f[1], f[2]) = firstNonEmpty(f[1], f[2])

\* the strings of a list, each once up to letter case, in the casing of the
\* first occurrence
RECURSIVE firstCasings(_)
firstCasings(list) ==
  IF list = <<>> THEN <<>>
  ELSE LET init == firstCasings(SubSeq(list, 1, Len(list) - 1))
           item == list[Len(list)]
       IN  IF \E k \in 1..Len(init) : toLowerCase(init[k]) = toLowerCase(item)
           THEN init ELSE Append(init, item)

\* the union of a field over the group, scanned in confidence order
unionOf(field) ==
  LET sorted == sortByConfidence(mergeCall.input)
  IN  firstCasings(Concat([i \in 1..Len(sorted) |-> sorted[i][field]]))

\* C20: each set-valued field of a merged record is the union of the field
\* over the contributors, values equal up to letter case once, in the casing
\* of their first occurrence in confidence order.
C20_SetFieldsUnion ==
  GroupMerged =>
    \A field \in {"genres", "tags", "studios", "demographics"} :
      mergeCall.result[1][field] = unionOf(field)

\* the store the facade's method reads and writes
storeOf(op) == IF op = "search" THEN "search" ELSE "details"

\* the store's entries for the key that have not expired
held(store, key) ==
  {e \in Range(cache[store]) : e.key = key /\ now - e.timestamp <= e.ttl}

\* this step is the beginning of a call of the facade
FacadeCalled == facade.pc = "idle" /\ facade'.pc # "idle"

\* this step calls a method of the aggregator
AggregatorCalled == aggPc = "idle" /\ aggPc' # "idle"

\* C16: a call of the facade's searchAnime or getAnimeDetails whose store holds
\* a non-expired entry for the requested key returns the entry's value and calls
\* neither the aggregator nor an adapter; the aggregator is called only by a
\* call that found no such entry; and when searchAnime returns what the
\* aggregator gave it, the search store holds that result under the key.
C16_CacheShortCircuits ==
  [][
      /\ (FacadeCalled /\ held(storeOf(facade'.op), facade'.key) # {}) =>
          /\ facade'.pc = "returned"
          /\ \E e \in held(storeOf(facade'.op), facade'.key) : facade'.result = e.data
          /\ UNCHANGED <<aggOp, aggPc, calls, adapter, branch>>
      /\ AggregatorCalled =>
          /\ FacadeCalled
          /\ held(storeOf(facade'.op), facade'.key) = {}
      /\ (facade.op = "search" /\ facade.pc = "awaiting" /\ facade'.pc = "returned") =>
          /\ facade'.result = output
          /\ \E e \in Range(cache'["search"]) :
               e.key = facade.key /\ e.data = output /\ e.timestamp = now
     ]_vars

\* a second search, spelled in another case, was answered from the cache with
\* the records the first one stored, the aggregator idle
C16_Witness ==
  /\ facade.op = "search" /\ facade.pc = "returned"
  /\ facade.hit
  /\ facade.n = 2
  /\ facade.result # <<>>
  /\ aggPc = "idle" /\ calls = {}
  /\ \E e \in held("search", facade.key) : e.data = facade.result /\ e.timestamp < now

\* this step settles a call of the facade's getAnimeDetails that had missed
DetailsSettled ==
  facade.op = "details" /\ facade.pc = "awaiting" /\ facade'.pc # "awaiting"

\* the aggregator's getAnimeDetails threw (unknown source, or the adapter's
\* error) or resolved with null
lookupFailed == aggPc = "threw" \/ (aggPc = "done" /\ details = <<>>)

\* the call threw or returned null
raisedOrNull ==
  \/ facade'.pc = "threw"
  \/ facade'.pc = "returned" /\ facade'.result = <<>>

\* an entry enters the details store only in the step that settles a call
\* whose lookup obtained a record, and it holds that record under the call's id
addedOnlyWithRecord ==
  \A e \in Range(cache'["details"]) \ Range(cache["details"]) :
    /\ DetailsSettled
    /\ aggPc = "done" /\ details # <<>>
    /\ e.key = facade.key /\ e.data = details

\* the entries of a store under other keys than key
others(entries, key) == SelectSeq(entries, LAMBDA e : e.key # key)

\* C30 as stated: a call of getAnimeDetails that missed the cache and whose
\* lookup failed or gave null throws or returns null and leaves the three
\* stores as the call found them; and an entry enters the details store only
\* when a record was obtained.
C30_StoresUnchangedOnFailure ==
  [][
      /\ (DetailsSettled /\ lookupFailed) =>
            /\ raisedOrNull
            /\ cache' = facade.before
      /\ addedOnlyWithRecord
    ]_vars

\* C30: a call of getAnimeDetails that missed the cache and whose lookup failed
\* or gave null throws or returns null and adds no entry to any store: the
\* search and recommendations stores are as the call found them, and so is the
\* details store but for the expired entry of the requested id, if it held
\* one, which the call's get deleted; and an entry enters the details store
\* only when a record was obtained.
C30_FailureAddsNothing ==
  [][
      /\ (DetailsSettled /\ lookupFailed) =>
            /\ raisedOrNull
            /\ cache'["search"] = facade.before["search"]
            /\ cache'["recommendations"] = facade.before["recommendations"]
            /\ cache'["details"] = others(facade.before["details"], facade.key)
            /\ \A e \in Range(facade.before["details"]) :
                 e.key = facade.key => now - e.timestamp > e.ttl
      /\ addedOnlyWithRecord
    ]_vars

\* a second call for an id whose entry had expired got null from the adapter
\* and returned null: the expired entry is gone and nothing took its place
C30_Witness ==
  /\ facade.op = "details" /\ facade.pc = "returned"
  /\ ~facade.hit /\ facade.result = <<>>
  /\ facade.n = 2
  /\ \E e \in Range(facade.before["details"]) : e.key = facade.key
  /\ cache["details"] = <<>>

\* the recorded timestamps younger than windowMs at time t
younger(reqs, t) == {i \in 1..Len(reqs) : t - reqs[i] < windowMs}

\* the age at time t of the oldest of them
oldestAge(reqs, t) ==
  t - reqs[CHOOSE i \in younger(reqs, t) : \A j \in younger(reqs, t) : reqs[i] <= reqs[j]]

\* C24: canMakeRequest() is true iff fewer than maxRequests recorded timestamps
\* are younger than windowMs; getWaitTime() is 0 in exactly that case and
\* otherwise windowMs minus the age of the oldest such timestamp; and a
\* recordRequest() appends the current time to the timestamps, whatever their
\* number.
C24_LimiterAnswers ==
  /\ [](/\ lastCan.called =>
            (lastCan.value <=>
               Cardinality(younger(lastCan.before, lastCan.at)) < maxRequests)
        /\ lastWait.called =>
            IF Cardinality(younger(lastWait.before, lastWait.at)) < maxRequests
            THEN lastWait.value = 0
            ELSE /\ lastWait.value = windowMs - oldestAge(lastWait.before, lastWait.at)
                 /\ lastWait.value > 0)
  /\ [][Len(requests') > Len(requests) => requests' = Append(requests, now)]_vars

\* with more than maxRequests timestamps inside the window, one of them
\* recorded over the limit, getWaitTime() gave a positive wait and
\* canMakeRequest() false; the oldest timestamp has some age
C24_Witness ==
  /\ lastWait.called /\ lastWait.at = now
  /\ lastCan.called /\ ~lastCan.value
  /\ Cardinality(younger(requests, now)) > maxRequests
  /\ lastWait.value > 0 /\ lastWait.value < windowMs

\* C25: the score of every result of getContentBasedRecommendations,
\* getHybridRecommendations and getPreferenceBasedRecommendations is within
\* [0, 1], under the factor weights the facade configures.
C25_ScoreWithinUnit ==
  EngineCalled =>
    \A i \in 1..Len(engineCall.result) :
      /\ engineCall.result[i].score.d > 0
      /\ engineCall.result[i].score.n >= 0
      /\ engineCall.result[i].score.n <= ScoreOne * engineCall.result[i].score.d

\* the recorded requests from the i-th on that fall within windowMs of it
withinWindow(i) ==
  {j \in 1..Len(requests) :
     requests[i] <= requests[j] /\ requests[j] < requests[i] + windowMs}

\* C26: when every request goes through makeRequest, no interval of windowMs
\* holds more than maxRequests recorded requests, overlapping calls included.
C26_WindowRespected ==
  \A i \in 1..Len(requests) : Cardinality(withinWindow(i)) <= maxRequests

\* C27: getAnimeDetails of the id of a record an enabled adapter produces raises
\* no unknown-source error and calls that adapter's getAnimeDetails, and no
\* other, with all of the id that follows the source's prefix.
C27_IdRoundTrips ==
  \A s \in enabled :
    (aggOp = "details" /\ \E a \in Catalogue[s] : a.id = aggArg) =>
      /\ aggError # "Unknown source"
      /\ calls = {[source |-> s, method |-> "getAnimeDetails", arg |-> Tail(aggArg)]}

\* the MergeKeys of a list of records
keysOf(list) == {generateAnimeKey(list[i]) : i \in 1..Len(list)}

\* C28: the list searchAnime returns has one record for each MergeKey among
\* the records the adapters' responses hold: no two of its records have the
\* same key, and its keys are those of the responses' records.
C28_OneRecordPerKey ==
  SearchDone =>
    /\ \A i, j \in 1..Len(output) :
         generateAnimeKey(output[i]) = generateAnimeKey(output[j]) => i = j
    /\ keysOf(output) = keysOf(allResults(joined))

\* three sources answered with four records of two keys, and two were returned
C28_Witness ==
  /\ SearchDone
  /\ Len(allResults(joined)) >= 4
  /\ Cardinality(keysOf(allResults(joined))) = 2
  /\ Len(output) = 2

\* what became of each source's branch, in the order of the source registry
outcomes == [i \in 1..Len(sourceEntries) |-> branch[sourceEntries[i]]]

\* C29: the list searchAnime returns is the merge of the per-source outcomes
\* (each source's list, or the empty list of an error or a timeout) taken in
\* registry order: the order in which the branches settled has no part in it.
C29_OrderOfCompletionIrrelevant ==
  SearchDone => output = mergeSearchResults(outcomes)

\* the last source of the registry settled first and the first one last, each
\* with a record, and those records were returned merged or side by side
C29_Witness ==
  /\ SearchDone
  /\ Len(settled) = Len(sourceEntries)
  /\ settled[1] = sourceEntries[Len(sourceEntries)]
  /\ settled[Len(settled)] = sourceEntries[1]
  /\ branch[settled[1]].results # <<>>
  /\ branch[sourceEntries[1]].results # <<>>
  /\ output # <<>>

\* C22: a get that finds a non-expired entry returns its value and leaves the
\* three stores as they were: the same keys, values, insertion timestamps and
\* ttls, in the same order.
C22_HitLeavesStoreUnchanged ==
  [][(lastGet'.store # "none" /\ held(lastGet'.store, lastGet'.key) # {}) =>
       /\ lastGet'.hit
       /\ \E e \in held(lastGet'.store, lastGet'.key) : lastGet'.data = e.data
       /\ cache' = cache
    ]_vars

\* an entry was read some time after it was stored, with another entry in the
\* store, and still carries the timestamp of its insertion
C22_Witness ==
  /\ GetMade /\ lastGet.hit
  /\ lastGet.at = now
  /\ lastGet.found[1].timestamp < now
  /\ Len(cache[lastGet.store]) >= 2
  /\ lastGet.found[1] \in Range(cache[lastGet.store])

\* the entries of a store that are expired at the present time
expiredIn(store) == {e \in Range(cache[store]) : now - e.timestamp > e.ttl}

\* the keys of the non-expired entries the step took out of the store
evicted(store) ==
  {e.key : e \in Range(cache[store]) \ expiredIn(store)}
    \ {e.key : e \in Range(cache'[store])}

InitFacade ==
  /\ AggInit /\ RestInit
  /\ enabled = {"anilist", "myanimelist"}
  /\ timeoutMs = DefaultTimeout

NextFacade ==
  \/ FacadeSearchAnime
  \/ FacadeGetAnimeDetails
  \/ FacadeAdapterReturns
  \/ AdapterThrows
  \/ Elapse
  \/ TimerFires
  \/ Join
  \/ DetailsReturns
  \/ DetailsThrows
  \/ FacadeSearchSettles
  \/ FacadeDetailsSettles
  \/ FacadeReturn
  \/ CacheClock

SpecFacade == InitFacade /\ [][NextFacade]_vars

(***************************************************************************)
(* Specification of an adapter's requests: every one through makeRequest.  *)
(***************************************************************************)
NextRequests ==
  \/ makeRequest
  \/ timerResolves
  \/ LimiterClock

SpecRequests == InitCache /\ [][NextRequests]_vars

=============================================================================
